---- MODULE Spec2Model ----
(***************************************************************************)
(* Library management system: the loan lifecycle and fine-accrual engine.  *)
(* The model follows src/src/models: LibrarySystem (the directory), Loan,  *)
(* Member / Staff and the three item classes.                              *)
(*                                                                         *)
(* Time is an integer number of ticks (TicksPerDay ticks per day), so that *)
(* timedelta.days (a floor) is visible.  Money is an integer number of     *)
(* cents: every rate used is a whole number of cents and every fine is a   *)
(* whole number of days times the rate, which binary floats represent      *)
(* exactly for the values drawn here.  A loan's uuid is its position in    *)
(* the loan registry, which also is the registry's insertion order.        *)
(* datetime.now() is read once per operation.  The class-wide creation     *)
(* counters (_total_items, _total_loans, ...) are not modelled.            *)
(***************************************************************************)
EXTENDS Integers, Sequences, FiniteSets, TLC

(***************************************************************************)
(* Bounds of the model.                                                    *)
(***************************************************************************)
MaxLoans == 2
MaxNow == 54
MaxNewLoans == 1
MaxDeskNow == 26

\* the member desk: the clock stops at this tick, and add_fine is not called
\* once the balance would pass this amount
MaxMemberNow == 732

MaxFinesOwed == 200

\* the member desk: renew_membership is not called once the expiry would pass
\* this tick (an expired membership renewed for 12 months at tick 732)
MaxMembershipExpiry == 1452

\* the report desk: check-outs stop when the loan registry holds this many
\* loans
MaxReportLoans == 4

\* the payment desk: check-outs stop when the loan registry holds this many
\* loans
MaxPaidLoans == 2

\* the application desk: borrowing stops when the loan registry holds this
\* many loans more than the desk opens with
MaxAppNewLoans == 1

(***************************************************************************)
(* Program constants.  TicksPerDay is the resolution of the clock below    *)
(* one day; money is in cents.                                             *)
(***************************************************************************)
TicksPerDay == 2
DefaultBorrowingLimit == 5
ManagerBorrowingLimit == 20
LibrarianBorrowingLimit == 15
MaxRenewals == 2
DefaultDailyFineRate == 50
FineThreshold == 1000
MembershipDays == 365
BookLoanPeriod == 21
MagazineLoanPeriod == 7
DVDLoanPeriod == 14
DefaultRenewalDays == 21

\* None, for a date, a user id, an item id and a loan
NoDate == -1
NoUser == ""
NoLoan == 0

(***************************************************************************)
(* Input domains of the directory specification Spec: a member and a       *)
(* librarian, a magazine and a book, and one jump of the clock that takes  *)
(* a magazine borrowed at 0 to 20 days overdue (a fine of exactly 10.00)   *)
(* and a book borrowed at 0 to 6 days overdue.                             *)
(***************************************************************************)
UserIds == {"u1", "u2"}
ItemIds == {"i1", "i2"}
UserKindsOf(user_id) ==
    IF user_id = "u1" THEN {"Member"}
    ELSE IF user_id = "u2" THEN {"Librarian"} ELSE {"Manager"}
ItemTypesOf(item_id) ==
    IF item_id = "i1" THEN {"Magazine"}
    ELSE IF item_id = "i2" THEN {"Book"} ELSE {"DVD"}
TickSteps == {27 * TicksPerDay}

(***************************************************************************)
(* Input domains of the stocked-library specification SpecLimit: a member, *)
(* a librarian and a manager, each holding one item less than the          *)
(* borrowing limit of the role, and a magazine, a book and a DVD to lend.  *)
(***************************************************************************)
LimitUserIds == {"u1", "u2", "u3", "u4"}
LimitItemIds == {"i1", "i2", "i3"}
StockTimes == {3}

(***************************************************************************)
(* Input domains of the loan-desk specification SpecLoan: one member who   *)
(* borrowed one magazine at time 0, a clock that advances tick by tick,    *)
(* and the Loan object's own methods called with an explicit return date   *)
(* (5 days after the first due date), a renewal by one day, and new fine   *)
(* rates (a negative one is refused).                                      *)
(***************************************************************************)
DeskUserIds == {"u1"}
DeskItemIds == {"i1"}
ReturnDates == {NoDate, 12 * TicksPerDay}
RenewalDays == {1}
FineRates == {-1, 25, 50}

\* the member desk (SpecMember): one member registered at tick 0, who borrows a
\* magazine nine days before the membership expires; the desk opens two days
\* before the expiry.  Amounts are in cents.
MemberUserIds == {"u1"}

MemberItemIds == {"i1", "i2"}

MemberCheckoutTime == 356 * TicksPerDay

MemberDeskOpens == 364 * TicksPerDay

AddFineAmounts == {-50, 0, 75}

PayFineAmounts == {-50, 0, 50, 1000}

\* the periods renew_membership is called with: none, one month, the default
RenewalMonths == {0, 1, 12}

\* the report desk (SpecReport): a Manager and three items, lent, returned,
\* removed and added again; the limits get_popular_items is asked with
ReportUserIds == {"u3"}

ReportItemIds == {"i1", "i2", "i3"}

PopularLimits == {0, 1, 2, 10}

\* the staff desk (SpecStaff): a Librarian whose role is assigned and whose
\* permissions are added and removed; "Janitor" is not a valid role and
\* "audit" is in no role's default list
StaffUserIds == {"u2"}

AssignedRoles == {"Manager", "Librarian", "Janitor"}

\* the names users are saved under, in the order of ORDER BY name (the
\* comparison of the texts byte by byte); a user constructed without a name
\* of its own is named by its id
Names == <<"Ann", "Bob", "u1", "u2", "u3", "u4">>

\* the application desk (SpecApp): member u1 is registered and holds loans of
\* stock items; u2 registers as a member or as a Librarian ("Guest" is not a
\* user type of the form); two items are added, borrowed, returned, renewed
\* and removed through the frontend
AppUserIds == {"u1", "u2"}

AppUserTypes == {"Member", "Staff", "Guest"}

\* the addresses users are registered with: u2 may take the address of u1;
\* "nobody" is not a valid address
AppEmails == {"u1@example.org", "u2@example.org", "nobody"}

\* the names users are registered with: member u1 is "Bob", u2 may be named
\* the same or "Ann", who is listed before; the empty name is refused
AppNames == {"Ann", "Bob", ""}

AppItemIds == {"i1", "i2"}

PermissionNames == {"view_catalog", "system_admin", "check_out_items", "audit"}

\* the directory (the clock, the item and user registries, the loan registry
\* indexed by loan id with the order of its keys, the active-loan index, the
\* process-wide fine rate) and the database the frontend writes to.  A loan
\* id is the number of the loan in the order of creation.
VARIABLES now, items, users, loans, loan_keys, active_loans, daily_fine_rate,
          db, pc

vars ==
    <<now, items, users, loans, loan_keys, active_loans, daily_fine_rate, db,
      pc>>

(***************************************************************************)
(* Helpers for Python lists and timedelta.                                 *)
(***************************************************************************)
Days(d) == d * TicksPerDay

\* timedelta.days: whole days, rounded down
WholeDays(ticks) == ticks \div TicksPerDay

Contains(seq, x) == \E k \in 1..Len(seq) : seq[k] = x

\* list.remove(x): drops the first occurrence
ListRemove(seq, x) ==
    IF ~Contains(seq, x) THEN seq
    ELSE LET p == CHOOSE k \in 1..Len(seq) :
                      seq[k] = x /\ \A j \in 1..(k - 1) : seq[j] # x
         IN  SubSeq(seq, 1, p - 1) \o SubSeq(seq, p + 1, Len(seq))

EmptyDict == [k \in {} |-> 0]

\* dict.get(key, default)
DictGet(d, key, default) == IF key \in DOMAIN d THEN d[key] ELSE default

\* d[key] = value on a dict
DictPut(d, key, value) ==
    [k \in (DOMAIN d) \cup {key} |-> IF k = key THEN value ELSE d[k]]

\* del d[key]
DictDel(d, key) == [k \in (DOMAIN d) \ {key} |-> d[k]]

HasAttr(obj, name) == name \in DOMAIN obj

(***************************************************************************)
(* Items: Book, Magazine, DVD (items.py) over LibraryItem.                 *)
(***************************************************************************)
\* mutant of get_loan_period: a DVD is lent for as long as a book
get_loan_period_DVDAsBook(item) ==
    CASE item.item_type = "Book" -> BookLoanPeriod
      [] item.item_type = "Magazine" -> MagazineLoanPeriod
      [] item.item_type = "DVD" -> BookLoanPeriod

get_loan_period(item) ==
    CASE item.item_type = "Book" -> BookLoanPeriod
      [] item.item_type = "Magazine" -> MagazineLoanPeriod
      [] item.item_type = "DVD" -> DVDLoanPeriod

NewItem(item_id, item_type) ==
    [item_id |-> item_id, item_type |-> item_type, is_available |-> TRUE,
     current_borrower |-> NoUser, checkout_date |-> NoDate]

\* item.check_out(user_id): <<result, item after the call>>
ItemCheckOut(item, user_id, t) ==
    IF ~item.is_available THEN <<FALSE, item>>
    ELSE <<TRUE, [item EXCEPT !.is_available = FALSE,
                              !.current_borrower = user_id,
                              !.checkout_date = t]>>

\* mutant of ItemCheckIn: reports success but leaves the item unavailable
ItemCheckIn_StaysOut(item) ==
    IF item.is_available THEN <<FALSE, item>>
    ELSE <<TRUE, [item EXCEPT !.current_borrower = NoUser,
                              !.checkout_date = NoDate]>>

\* item.check_in(): <<result, item after the call>>
ItemCheckIn(item) ==
    IF item.is_available THEN <<FALSE, item>>
    ELSE <<TRUE, [item EXCEPT !.is_available = TRUE,
                              !.current_borrower = NoUser,
                              !.checkout_date = NoDate]>>

(***************************************************************************)
(* Users: Member and Staff (users.py).  A Staff object has no loan         *)
(* history, no fines and no membership expiry.                             *)
(***************************************************************************)
\* the e-mail address a user id is registered with, unless another is given
EmailOf(user_id) == user_id \o "@example.org"

\* User._is_valid_email on the addresses drawn: the addresses of the user ids
\* have an "@" and a dot after it, "nobody" has not
is_valid_email(email) == email \in {EmailOf(u) : u \in {"u1", "u2", "u3", "u4"}}

NewMember(user_id, t) ==
    [user_id |-> user_id, name |-> user_id, email |-> EmailOf(user_id),
     role |-> "Member", borrowed_items |-> <<>>,
     loan_history |-> <<>>, fines_owed |-> 0,
     membership_expiry |-> t + Days(MembershipDays)]

\* the permission list of a staff role
get_default_permissions(staff_role) ==
    LET base_permissions == <<"view_catalog", "help_members">>
    IN  IF staff_role = "Manager"
        THEN base_permissions \o <<"add_items", "remove_items", "manage_users",
                                   "view_reports", "system_admin",
                                   "manage_fines">>
        ELSE IF staff_role = "Librarian"
        THEN base_permissions \o <<"add_items", "remove_items",
                                   "check_out_items", "check_in_items",
                                   "view_member_history", "manage_fines">>
        ELSE base_permissions

NewStaff(user_id, staff_role) ==
    [user_id |-> user_id, name |-> user_id, email |-> EmailOf(user_id),
     role |-> "Staff",
     staff_role |-> staff_role, borrowed_items |-> <<>>,
     permissions |-> get_default_permissions(staff_role)]

\* staff.staff_role = value: whether the assignment ended in ValueError, and
\* the staff object after it
set_staff_role(user, value) ==
    IF value \notin {"Manager", "Librarian"}
    THEN [raised |-> TRUE, user |-> user]
    ELSE [raised |-> FALSE,
          user |-> [user EXCEPT !.staff_role = value,
                                !.permissions = get_default_permissions(value)]]

add_permission(user, permission) ==
    IF ~Contains(user.permissions, permission)
    THEN [ok |-> TRUE,
          user |-> [user EXCEPT !.permissions = Append(@, permission)]]
    ELSE [ok |-> FALSE, user |-> user]

remove_permission(user, permission) ==
    IF Contains(user.permissions, permission)
    THEN [ok |-> TRUE,
          user |-> [user EXCEPT !.permissions = ListRemove(@, permission)]]
    ELSE [ok |-> FALSE, user |-> user]

NewUser(user_id, kind, t) ==
    IF kind = "Member" THEN NewMember(user_id, t) ELSE NewStaff(user_id, kind)

\* mutant of get_borrowing_limit: every staff role gets the manager's limit
get_borrowing_limit_StaffAlike(user) ==
    IF user.role = "Member" THEN DefaultBorrowingLimit
    ELSE ManagerBorrowingLimit

get_borrowing_limit(user) ==
    IF user.role = "Member" THEN DefaultBorrowingLimit
    ELSE IF user.staff_role = "Manager" THEN ManagerBorrowingLimit
    ELSE LibrarianBorrowingLimit

\* mutant of MemberCanBorrowItem: the availability of the item is not looked at
MemberCanBorrowItem_IgnoresAvailability(user, item, t) ==
    IF Len(user.borrowed_items) >= get_borrowing_limit(user) THEN FALSE
    ELSE IF t > user.membership_expiry THEN FALSE
    ELSE IF user.fines_owed > FineThreshold THEN FALSE
    ELSE TRUE

\* mutant of MemberCanBorrowItem: fines of exactly the threshold block too
MemberCanBorrowItem_BlocksAtThreshold(user, item, t) ==
    IF Len(user.borrowed_items) >= get_borrowing_limit(user) THEN FALSE
    ELSE IF ~item.is_available THEN FALSE
    ELSE IF t > user.membership_expiry THEN FALSE
    ELSE IF user.fines_owed >= FineThreshold THEN FALSE
    ELSE TRUE

MemberCanBorrowItem(user, item, t) ==
    IF Len(user.borrowed_items) >= get_borrowing_limit(user) THEN FALSE
    ELSE IF ~item.is_available THEN FALSE
    ELSE IF t > user.membership_expiry THEN FALSE
    ELSE IF user.fines_owed > FineThreshold THEN FALSE
    ELSE TRUE

\* mutant of StaffCanBorrowItem: the availability of the item is not tested
StaffCanBorrowItem_IgnoresAvailability(user, item) ==
    IF Len(user.borrowed_items) >= get_borrowing_limit(user) THEN FALSE
    ELSE TRUE

StaffCanBorrowItem(user, item) ==
    IF Len(user.borrowed_items) >= get_borrowing_limit(user) THEN FALSE
    ELSE IF ~item.is_available THEN FALSE
    ELSE TRUE

can_borrow_item(user, item, t) ==
    IF user.role = "Member" THEN MemberCanBorrowItem(user, item, t)
    ELSE StaffCanBorrowItem(user, item)

\* mutant of borrow_item: the item id is not recorded
borrow_item_NotRecorded(user, item_id) == user

\* user.borrow_item(item_id): the user after the call
borrow_item(user, item_id) ==
    IF Len(user.borrowed_items) >= get_borrowing_limit(user) THEN user
    ELSE IF ~Contains(user.borrowed_items, item_id)
         THEN [user EXCEPT !.borrowed_items = Append(@, item_id)]
         ELSE user

\* mutant of user_return_item: the item id stays in the list
user_return_item_KeepsItem(user, item_id) == user

\* user.return_item(item_id): the user after the call
user_return_item(user, item_id) ==
    [user EXCEPT !.borrowed_items = ListRemove(@, item_id)]

add_loan_to_history(user, loan_id) ==
    IF ~Contains(user.loan_history, loan_id)
    THEN [user EXCEPT !.loan_history = Append(@, loan_id)]
    ELSE user

add_fine(user, amount) ==
    IF amount > 0 THEN [user EXCEPT !.fines_owed = @ + amount] ELSE user

\* mutant of pay_fine: a payment above the balance is accepted
pay_fine_AcceptsOverpayment(user, amount) ==
    IF amount <= 0 THEN [ok |-> FALSE, user |-> user]
    ELSE [ok |-> TRUE, user |-> [user EXCEPT !.fines_owed = @ - amount]]

\* mutant of pay_fine: a payment above the balance clears the balance
pay_fine_Clamps(user, amount) ==
    IF amount <= 0 THEN [ok |-> FALSE, user |-> user]
    ELSE [ok |-> TRUE,
          user |-> [user EXCEPT !.fines_owed = IF amount > @ THEN 0 ELSE @ - amount]]

\* pay_fine: the success flag and the member after the call
pay_fine(user, amount) ==
    IF amount <= 0 \/ amount > user.fines_owed
    THEN [ok |-> FALSE, user |-> user]
    ELSE [ok |-> TRUE, user |-> [user EXCEPT !.fines_owed = @ - amount]]

\* mutant of is_membership_active: the expiry instant is no longer active
is_membership_active_BeforeExpiry(user, t) == t < user.membership_expiry

is_membership_active(user, t) == t <= user.membership_expiry

\* member.renew_membership(months) at time t: the call raises for a period
\* that is not positive; an active membership is extended from its expiry,
\* an expired one from now
renew_membership(user, months, t) ==
    IF months <= 0 THEN [raised |-> TRUE, user |-> user]
    ELSE [raised |-> FALSE,
          user |-> IF is_membership_active(user, t)
                   THEN [user EXCEPT !.membership_expiry = @ + Days(30 * months)]
                   ELSE [user EXCEPT
                           !.membership_expiry = t + Days(30 * months)]]

(***************************************************************************)
(* Loan (loan.py).                                                         *)
(***************************************************************************)
NewLoan(user_id, item_id, loan_period_days, t) ==
    [user_id |-> user_id, item_id |-> item_id, date_borrowed |-> t,
     date_due |-> t + Days(loan_period_days), date_returned |-> NoDate,
     is_returned |-> FALSE, fine_amount |-> 0, renewal_count |-> 0]

\* mutant of is_overdue: a loan is overdue from its due date on
is_overdue_AtDueDate(loan, t) ==
    IF loan.is_returned THEN FALSE ELSE t >= loan.date_due

is_overdue(loan, t) == IF loan.is_returned THEN FALSE ELSE t > loan.date_due

days_overdue(loan, t) ==
    IF loan.is_returned \/ ~is_overdue(loan, t) THEN 0
    ELSE WholeDays(t - loan.date_due)

\* mutant of LoanReturnItem: the returned flag is not set
LoanReturnItem_FlagNotSet(loan, return_date, rate) ==
    [loan EXCEPT !.date_returned = return_date,
                 !.fine_amount = IF return_date > loan.date_due
                                 THEN WholeDays(return_date - loan.date_due) * rate
                                 ELSE 0]

\* mutant of LoanReturnItem: a started day late counts as a whole day
LoanReturnItem_PartialDayCounts(loan, return_date, rate) ==
    [loan EXCEPT !.date_returned = return_date,
                 !.is_returned = TRUE,
                 !.fine_amount = IF return_date > loan.date_due
                                 THEN WholeDays(return_date - loan.date_due
                                                + TicksPerDay - 1) * rate
                                 ELSE 0]

\* loan.return_item(return_date) on a loan that is not returned
LoanReturnItem(loan, return_date, rate) ==
    [loan EXCEPT !.date_returned = return_date,
                 !.is_returned = TRUE,
                 !.fine_amount = IF return_date > loan.date_due
                                 THEN WholeDays(return_date - loan.date_due) * rate
                                 ELSE 0]

\* mutant of can_renew: an overdue loan counts as renewable
can_renew_IgnoresOverdue(loan, t) ==
    IF loan.is_returned THEN FALSE
    ELSE IF loan.renewal_count >= MaxRenewals THEN FALSE
    ELSE TRUE

can_renew(loan, t) ==
    IF loan.is_returned THEN FALSE
    ELSE IF loan.renewal_count >= MaxRenewals THEN FALSE
    ELSE IF is_overdue(loan, t) THEN FALSE
    ELSE TRUE

\* mutant of LoanRenewLoan: the number of renewals is not looked at
LoanRenewLoan_NoMaximum(loan, additional_days, t) ==
    IF loan.is_returned THEN <<FALSE, loan>>
    ELSE IF is_overdue(loan, t) THEN <<FALSE, loan>>
    ELSE <<TRUE, [loan EXCEPT !.date_due = @ + Days(additional_days),
                              !.renewal_count = @ + 1]>>

\* mutant of LoanRenewLoan: an overdue loan is renewed
LoanRenewLoan_RenewsOverdue(loan, additional_days, t) ==
    IF loan.is_returned THEN <<FALSE, loan>>
    ELSE IF loan.renewal_count >= MaxRenewals THEN <<FALSE, loan>>
    ELSE <<TRUE, [loan EXCEPT !.date_due = @ + Days(additional_days),
                              !.renewal_count = @ + 1]>>

\* loan.renew_loan(additional_days): <<result, loan after the call>>
LoanRenewLoan(loan, additional_days, t) ==
    IF loan.is_returned THEN <<FALSE, loan>>
    ELSE IF loan.renewal_count >= MaxRenewals THEN <<FALSE, loan>>
    ELSE IF is_overdue(loan, t) THEN <<FALSE, loan>>
    ELSE <<TRUE, [loan EXCEPT !.date_due = @ + Days(additional_days),
                              !.renewal_count = @ + 1]>>

\* loan._calculate_current_fine(): the loan after the call
CalculateCurrentFine(loan, t, rate) ==
    IF is_overdue(loan, t)
    THEN [loan EXCEPT !.fine_amount = days_overdue(loan, t) * rate]
    ELSE [loan EXCEPT !.fine_amount = 0]

\* mutant of ReadFineAmount: the read recomputes the fine of a returned loan
ReadFineAmount_AlwaysRecalculates(loan, t, rate) ==
    LET after == CalculateCurrentFine(loan, t, rate)
    IN  [value |-> after.fine_amount, loan |-> after]

\* reading the property loan.fine_amount: the value read and the loan after
\* the read (the read stores the current fine of a loan that is not returned)
ReadFineAmount(loan, t, rate) ==
    LET after == IF ~loan.is_returned THEN CalculateCurrentFine(loan, t, rate)
                 ELSE loan
    IN  [value |-> after.fine_amount, loan |-> after]

\* mutant of LoanReturnItemCall: a returned loan is returned again
LoanReturnItemCall_NoGuard(loan, return_date, t, rate) ==
    LET date_returned == IF return_date = NoDate THEN t ELSE return_date
        returned == LoanReturnItem(loan, date_returned, rate)
    IN  [raised |-> FALSE, value |-> returned.fine_amount, loan |-> returned]

\* loan.return_item(return_date) as called from outside: return_date NoDate
\* stands for None (the call then reads the clock); raised tells whether the
\* call ended in ValueError, value is what it returned otherwise
LoanReturnItemCall(loan, return_date, t, rate) ==
    IF loan.is_returned
    THEN [raised |-> TRUE, value |-> 0, loan |-> loan]
    ELSE LET date_returned == IF return_date = NoDate THEN t ELSE return_date
             returned == LoanReturnItem(loan, date_returned, rate)
         IN  [raised |-> FALSE, value |-> returned.fine_amount,
              loan |-> returned]

\* Loan.set_daily_fine_rate(rate): the rate after the call and whether the
\* call ended in ValueError
set_daily_fine_rate(current, rate) ==
    IF rate < 0 THEN [raised |-> TRUE, rate |-> current]
    ELSE [raised |-> FALSE, rate |-> rate]

\* Loan.get_status(): the status word and the number it is printed with (the
\* fine of a late return, the whole days overdue, the whole days remaining)
get_status(loan, t) ==
    IF loan.is_returned
    THEN IF loan.fine_amount > 0
         THEN [status |-> "Returned Late", n |-> loan.fine_amount]
         ELSE [status |-> "Returned On Time", n |-> 0]
    ELSE IF is_overdue(loan, t)
    THEN [status |-> "Overdue", n |-> days_overdue(loan, t)]
    ELSE [status |-> "Active", n |-> WholeDays(loan.date_due - t)]

\* mutant of isoformat: the date without the time of day
isoformat_DateOnly(t) == [date |-> t \div TicksPerDay, time |-> 0]

\* datetime.isoformat(): the text 'YYYY-MM-DDTHH:MM:SS.ffffff' as its date
\* part (days since day 0) and its time part (ticks since midnight)
isoformat(t) == [date |-> t \div TicksPerDay, time |-> t % TicksPerDay]

\* datetime.fromisoformat(text)
fromisoformat(text) == text.date * TicksPerDay + text.time

\* loan.to_dict() of the loan registered under loan_id; the date_returned
\* entry is <<>> for None and <<text>> otherwise
to_dict(loan, loan_id, t) ==
    [loan_id |-> loan_id,
     user_id |-> loan.user_id,
     item_id |-> loan.item_id,
     date_borrowed |-> isoformat(loan.date_borrowed),
     date_due |-> isoformat(loan.date_due),
     date_returned |-> IF loan.date_returned # NoDate
                       THEN <<isoformat(loan.date_returned)>> ELSE <<>>,
     is_returned |-> loan.is_returned,
     fine_amount |-> loan.fine_amount,
     renewal_count |-> loan.renewal_count,
     status |-> get_status(loan, t)]

\* Loan.from_dict(data): a loan constructed at time t from the ids and the
\* period between the two dates, then overwritten with the saved values; the
\* result is the loan and the id it carries
from_dict(data, t) ==
    LET date_borrowed == fromisoformat(data.date_borrowed)
        date_due == fromisoformat(data.date_due)
        loan_period == WholeDays(date_due - date_borrowed)
        created == NewLoan(data.user_id, data.item_id, loan_period, t)
    IN  [loan_id |-> data.loan_id,
         loan |-> [created EXCEPT
                     !.date_borrowed = date_borrowed,
                     !.date_due = date_due,
                     !.is_returned = data.is_returned,
                     !.fine_amount = data.fine_amount,
                     !.renewal_count = data.renewal_count,
                     !.date_returned = IF Len(data.date_returned) > 0
                                       THEN fromisoformat(data.date_returned[1])
                                       ELSE @]]

(***************************************************************************)
(* LibrarySystem (library_system.py).  Each method is an operator from the *)
(* directory state S (a record of the registries, the clock and the fine   *)
(* rate) and the arguments to the state after the call and what the call   *)
(* returns.                                                                *)
(***************************************************************************)
St == [now |-> now, items |-> items, users |-> users, loans |-> loans,
       loan_keys |-> loan_keys, active_loans |-> active_loans,
       daily_fine_rate |-> daily_fine_rate]

Ret(S, ok, msg, fine) == [S |-> S, ok |-> ok, msg |-> msg, fine |-> fine]

\* mutant of FindActiveLoan: the loan is looked up in the whole registry,
\* not in the user's active-loan list
FindActiveLoan_AnyUser(S, user_id, item_id) ==
    LET hit(l) == S.loans[l].item_id = item_id /\ ~S.loans[l].is_returned
    IN  IF \E l \in 1..Len(S.loans) : hit(l)
        THEN CHOOSE l \in 1..Len(S.loans) : hit(l)
        ELSE NoLoan

\* mutant of FindActiveLoan: any loan of the item in the registry is taken,
\* returned or not
FindActiveLoan_AnyLoanOfItem(S, user_id, item_id) ==
    LET hit(l) == S.loans[l].item_id = item_id
    IN  IF \E l \in 1..Len(S.loans) : hit(l)
        THEN CHOOSE l \in 1..Len(S.loans) : hit(l)
        ELSE NoLoan

\* the loop of check_in_item / renew_loan over the user's active-loan list:
\* the first listed loan of the item that is not returned, NoLoan if none
FindActiveLoan(S, user_id, item_id) ==
    LET ids == DictGet(S.active_loans, user_id, <<>>)
        hit(k) == /\ ids[k] \in 1..Len(S.loans)
                  /\ S.loans[ids[k]].item_id = item_id
                  /\ ~S.loans[ids[k]].is_returned
    IN  IF \E k \in 1..Len(ids) : hit(k)
        THEN ids[CHOOSE k \in 1..Len(ids) :
                     hit(k) /\ \A j \in 1..(k - 1) : ~hit(j)]
        ELSE NoLoan

\* mutant of register_user: a registration under an id already present
\* replaces the entry and resets the active-loan index
register_user_Overwrites(S, user_id, kind) ==
    Ret([S EXCEPT
           !.users = DictPut(@, user_id, NewUser(user_id, kind, S.now)),
           !.active_loans = DictPut(@, user_id, <<>>)],
        user_id \notin DOMAIN S.users, "", 0)

register_user(S, user_id, kind) ==
    IF user_id \in DOMAIN S.users THEN Ret(S, FALSE, "", 0)
    ELSE Ret([S EXCEPT
                !.users = DictPut(@, user_id, NewUser(user_id, kind, S.now)),
                !.active_loans = DictPut(@, user_id, <<>>)],
             TRUE, "", 0)

\* mutant of remove_user: a user with active loans is removed too
remove_user_IgnoresLoans(S, user_id) ==
    IF user_id \notin DOMAIN S.users THEN Ret(S, FALSE, "", 0)
    ELSE Ret([S EXCEPT !.users = DictDel(@, user_id),
                       !.active_loans = DictDel(@, user_id)],
             TRUE, "", 0)

remove_user(S, user_id) ==
    IF user_id \notin DOMAIN S.users THEN Ret(S, FALSE, "", 0)
    ELSE IF Len(DictGet(S.active_loans, user_id, <<>>)) > 0
    THEN Ret(S, FALSE, "", 0)
    ELSE Ret([S EXCEPT !.users = DictDel(@, user_id),
                       !.active_loans = DictDel(@, user_id)],
             TRUE, "", 0)

add_item(S, item_id, item_type) ==
    IF item_id \in DOMAIN S.items THEN Ret(S, FALSE, "", 0)
    ELSE Ret([S EXCEPT !.items = DictPut(@, item_id, NewItem(item_id, item_type))],
             TRUE, "", 0)

\* mutant of remove_item: an item on loan is removed too
remove_item_IgnoresLoan(S, item_id) ==
    IF item_id \notin DOMAIN S.items THEN Ret(S, FALSE, "", 0)
    ELSE Ret([S EXCEPT !.items = DictDel(@, item_id)], TRUE, "", 0)

remove_item(S, item_id) ==
    IF item_id \notin DOMAIN S.items THEN Ret(S, FALSE, "", 0)
    ELSE IF ~S.items[item_id].is_available THEN Ret(S, FALSE, "", 0)
    ELSE Ret([S EXCEPT !.items = DictDel(@, item_id)], TRUE, "", 0)

\* mutant of CheckOutRefusal: the item is looked up before the user
CheckOutRefusal_ItemFirst(S, user_id, item_id) ==
    IF item_id \notin DOMAIN S.items THEN "Item not found"
    ELSE IF user_id \notin DOMAIN S.users THEN "User not found"
    ELSE IF ~can_borrow_item(S.users[user_id], S.items[item_id], S.now)
    THEN "User cannot borrow this item (check limits, fines, or membership status)"
    ELSE IF ~S.items[item_id].is_available THEN "Item is not available"
    ELSE ""

\* the validation of check_out_item: the message of the first check that
\* refuses the call, "" if none does
CheckOutRefusal(S, user_id, item_id) ==
    IF user_id \notin DOMAIN S.users THEN "User not found"
    ELSE IF item_id \notin DOMAIN S.items THEN "Item not found"
    ELSE IF ~can_borrow_item(S.users[user_id], S.items[item_id], S.now)
    THEN "User cannot borrow this item (check limits, fines, or membership status)"
    ELSE IF ~S.items[item_id].is_available THEN "Item is not available"
    ELSE ""

check_out_item(S, user_id, item_id) ==
    IF CheckOutRefusal(S, user_id, item_id) # ""
    THEN Ret(S, FALSE, CheckOutRefusal(S, user_id, item_id), 0)
    ELSE LET loan == NewLoan(user_id, item_id,
                             get_loan_period(S.items[item_id]), S.now)
             out == ItemCheckOut(S.items[item_id], user_id, S.now)
             loan_id == Len(S.loans) + 1
         IN  IF out[1]
             THEN Ret([S EXCEPT
                         !.items[item_id] = out[2],
                         !.loans = Append(@, loan),
                         !.loan_keys = Append(@, loan_id),
                         !.active_loans[user_id] = Append(@, loan_id),
                         !.users[user_id] = borrow_item(@, item_id)],
                      TRUE, "Item checked out successfully", 0)
             ELSE Ret([S EXCEPT !.items[item_id] = out[2]],
                      FALSE, "Failed to check out item", 0)

\* mutant of CheckInUserUpdate: the fine of a late return is not charged
CheckInUserUpdate_NoFine(user, item_id, loan_id, fine_amount) ==
    LET u1 == IF HasAttr(user, "borrowed_items")
              THEN user_return_item(user, item_id) ELSE user
    IN  IF HasAttr(u1, "loan_history")
        THEN add_loan_to_history(u1, loan_id) ELSE u1

\* mutant of CheckInUserUpdate: the fine is charged to any user object, which
\* gets a fines balance if it has none
CheckInUserUpdate_ChargesEveryone(user, item_id, loan_id, fine_amount) ==
    LET u1 == IF HasAttr(user, "borrowed_items")
              THEN user_return_item(user, item_id) ELSE user
        u2 == IF HasAttr(u1, "loan_history")
              THEN add_loan_to_history(u1, loan_id) ELSE u1
        owed == IF HasAttr(u2, "fines_owed") THEN u2.fines_owed ELSE 0
    IN  IF fine_amount > 0
        THEN [f \in DOMAIN u2 \cup {"fines_owed"} |->
                IF f = "fines_owed" THEN owed + fine_amount ELSE u2[f]]
        ELSE u2

\* the updates check_in_item makes to the user object, each only if the
\* object has the method (hasattr)
CheckInUserUpdate(user, item_id, loan_id, fine_amount) ==
    LET u1 == IF HasAttr(user, "borrowed_items")
              THEN user_return_item(user, item_id) ELSE user
        u2 == IF HasAttr(u1, "loan_history")
              THEN add_loan_to_history(u1, loan_id) ELSE u1
        u3 == IF fine_amount > 0 /\ HasAttr(u2, "fines_owed")
              THEN add_fine(u2, fine_amount) ELSE u2
    IN  u3

\* mutant of check_in_item: the loan id stays in the user's active-loan list
check_in_item_KeepsIndex(S, user_id, item_id) ==
    LET loan_id == FindActiveLoan(S, user_id, item_id)
    IN  IF loan_id = NoLoan
        THEN Ret(S, FALSE, "No active loan found for this item and user", 0)
        ELSE IF item_id \notin DOMAIN S.items
        THEN Ret(S, FALSE, "Item not found", 0)
        ELSE LET returned == LoanReturnItem(S.loans[loan_id], S.now,
                                            S.daily_fine_rate)
                 fine_amount == returned.fine_amount
                 back == ItemCheckIn(S.items[item_id])
                 S1 == [S EXCEPT !.loans[loan_id] = returned,
                                 !.items[item_id] = back[2]]
             IN  IF back[1]
                 THEN Ret([S1 EXCEPT
                             !.users = IF user_id \in DOMAIN S1.users
                                       THEN [@ EXCEPT ![user_id] =
                                               CheckInUserUpdate(@, item_id,
                                                   loan_id, fine_amount)]
                                       ELSE @],
                          TRUE, "Item returned successfully", fine_amount)
                 ELSE Ret(S1, FALSE, "Failed to check in item", 0)

check_in_item(S, user_id, item_id) ==
    LET loan_id == FindActiveLoan(S, user_id, item_id)
    IN  IF loan_id = NoLoan
        THEN Ret(S, FALSE, "No active loan found for this item and user", 0)
        ELSE IF item_id \notin DOMAIN S.items
        THEN Ret(S, FALSE, "Item not found", 0)
        ELSE LET returned == LoanReturnItem(S.loans[loan_id], S.now,
                                            S.daily_fine_rate)
                 fine_amount == returned.fine_amount
                 back == ItemCheckIn(S.items[item_id])
                 S1 == [S EXCEPT !.loans[loan_id] = returned,
                                 !.items[item_id] = back[2]]
             IN  IF back[1]
                 THEN Ret([S1 EXCEPT
                             !.active_loans[user_id] = ListRemove(@, loan_id),
                             !.users = IF user_id \in DOMAIN S1.users
                                       THEN [@ EXCEPT ![user_id] =
                                               CheckInUserUpdate(@, item_id,
                                                   loan_id, fine_amount)]
                                       ELSE @],
                          TRUE, "Item returned successfully", fine_amount)
                 ELSE Ret(S1, FALSE, "Failed to check in item", 0)

\* mutant of renew_loan: the loan is extended by the loan period of its item
renew_loan_ByLoanPeriod(S, user_id, item_id) ==
    LET loan_id == FindActiveLoan(S, user_id, item_id)
    IN  IF loan_id = NoLoan
        THEN Ret(S, FALSE, "No active loan found for this item and user", 0)
        ELSE LET days == IF item_id \in DOMAIN S.items
                         THEN get_loan_period(S.items[item_id])
                         ELSE DefaultRenewalDays
                 renewed == LoanRenewLoan(S.loans[loan_id], days, S.now)
             IN  IF renewed[1]
                 THEN Ret([S EXCEPT !.loans[loan_id] = renewed[2]],
                          TRUE, "Loan renewed successfully", 0)
                 ELSE Ret([S EXCEPT !.loans[loan_id] = renewed[2]],
                          FALSE, "Cannot renew loan", 0)

\* mutant of renew_loan: a renewal also restarts the loan at the present time
renew_loan_RestartsLoan(S, user_id, item_id) ==
    LET loan_id == FindActiveLoan(S, user_id, item_id)
    IN  IF loan_id = NoLoan
        THEN Ret(S, FALSE, "No active loan found for this item and user", 0)
        ELSE LET renewed == LoanRenewLoan(S.loans[loan_id], DefaultRenewalDays,
                                          S.now)
             IN  IF renewed[1]
                 THEN Ret([S EXCEPT !.loans[loan_id] =
                              [renewed[2] EXCEPT !.date_borrowed = S.now]],
                          TRUE, "Loan renewed successfully", 0)
                 ELSE Ret(S, FALSE, "Cannot renew loan", 0)

renew_loan(S, user_id, item_id) ==
    LET loan_id == FindActiveLoan(S, user_id, item_id)
    IN  IF loan_id = NoLoan
        THEN Ret(S, FALSE, "No active loan found for this item and user", 0)
        ELSE LET renewed == LoanRenewLoan(S.loans[loan_id], DefaultRenewalDays,
                                          S.now)
             IN  IF renewed[1]
                 THEN Ret([S EXCEPT !.loans[loan_id] = renewed[2]],
                          TRUE, "Loan renewed successfully", 0)
                 ELSE Ret([S EXCEPT !.loans[loan_id] = renewed[2]],
                          FALSE, "Cannot renew loan", 0)

\* whether check_out_item(user_id, item_id) ends in an exception: past the
\* validation and item.check_out, self._active_loans[user_id] raises KeyError
\* for a user without an entry in the active-loan index
check_out_item_raises(S, user_id, item_id) ==
    /\ CheckOutRefusal(S, user_id, item_id) = ""
    /\ ItemCheckOut(S.items[item_id], user_id, S.now)[1]
    /\ user_id \notin DOMAIN S.active_loans

\* whether check_in_item(user_id, item_id) ends in an exception: return_item
\* raises ValueError on a returned loan, self._active_loans[user_id] raises
\* KeyError without an index entry and list.remove raises ValueError for an
\* id that is not in the list
check_in_item_raises(S, user_id, item_id) ==
    LET loan_id == FindActiveLoan(S, user_id, item_id)
    IN  /\ loan_id # NoLoan
        /\ item_id \in DOMAIN S.items
        /\ \/ LoanReturnItemCall(S.loans[loan_id], NoDate, S.now,
                                 S.daily_fine_rate).raised
           \/ /\ ItemCheckIn(S.items[item_id])[1]
              /\ \/ user_id \notin DOMAIN S.active_loans
                 \/ ~Contains(S.active_loans[user_id], loan_id)

\* whether renew_loan(user_id, item_id) ends in an exception: the index and
\* the registry are read with dict.get and Loan.renew_loan raises nothing
renew_loan_raises(S, user_id, item_id) == FALSE

\* mutant of get_overdue_loans: a loan is listed from its due date on
get_overdue_loans_DueReached(S) ==
    SelectSeq(S.loan_keys,
              LAMBDA k : ~S.loans[k].is_returned /\ S.now >= S.loans[k].date_due)

\* the loans of the registry, in the order of its keys, not returned and
\* overdue
get_overdue_loans(S) ==
    SelectSeq(S.loan_keys,
              LAMBDA k : ~S.loans[k].is_returned /\ is_overdue(S.loans[k], S.now))

\* the loans of the registry after loan.fine_amount was read on each loan of
\* ids (the read stores the current fine of a loan that is not returned)
FinesRead(S, ids) ==
    [k \in 1..Len(S.loans) |->
        IF k \in {ids[j] : j \in 1..Len(ids)}
        THEN ReadFineAmount(S.loans[k], S.now, S.daily_fine_rate).loan
        ELSE S.loans[k]]

RECURSIVE SumOfFines(_, _, _)
\* sum(loan.fine_amount for loan in the first n loans of ids)
SumOfFines(S, ids, n) ==
    IF n = 0 THEN 0
    ELSE SumOfFines(S, ids, n - 1)
            + ReadFineAmount(S.loans[ids[n]], S.now, S.daily_fine_rate).value

\* get_system_statistics(): the statistics returned and the directory after
\* the call (the fines of the overdue loans are read, and so stored)
get_system_statistics(S) ==
    LET overdue_loans == get_overdue_loans(S)
        with_role(role) == {u \in DOMAIN S.users : S.users[u].role = role}
        of_type(ty) == {i \in DOMAIN S.items : S.items[i].item_type = ty}
    IN  [S |-> [S EXCEPT !.loans = FinesRead(S, overdue_loans)],
         value |->
            [total_items |-> Cardinality(DOMAIN S.items),
             available_items |->
                Cardinality({i \in DOMAIN S.items : S.items[i].is_available}),
             total_users |-> Cardinality(DOMAIN S.users),
             total_members |-> Cardinality(with_role("Member")),
             total_staff |-> Cardinality(with_role("Staff")),
             total_loans |-> Len(S.loans),
             active_loans |->
                Cardinality({k \in 1..Len(S.loans) : ~S.loans[k].is_returned}),
             overdue_loans |-> Len(overdue_loans),
             total_fines_owed |->
                SumOfFines(S, overdue_loans, Len(overdue_loans)),
             books_count |-> Cardinality(of_type("Book")),
             magazines_count |-> Cardinality(of_type("Magazine")),
             dvds_count |-> Cardinality(of_type("DVD"))]]

\* item_loan_counts after the first n keys of the registry: one pair
\* <<item id, count>> per registered item with a loan, in the order in which
\* the ids were first met (the insertion order of the dict)
RECURSIVE ItemLoanCounts(_, _)
ItemLoanCounts(S, n) ==
    IF n = 0 THEN <<>>
    ELSE LET counts == ItemLoanCounts(S, n - 1)
             item_id == S.loans[S.loan_keys[n]].item_id
         IN  IF item_id \notin DOMAIN S.items THEN counts
             ELSE IF \E k \in 1..Len(counts) : counts[k][1] = item_id
             THEN [k \in 1..Len(counts) |->
                     IF counts[k][1] = item_id
                     THEN <<item_id, counts[k][2] + 1>> ELSE counts[k]]
             ELSE Append(counts, <<item_id, 1>>)

\* sorted(..., key = count, reverse = True) on the first n pairs: the sort is
\* stable, so a pair goes after every pair already placed whose count is not
\* smaller
RECURSIVE SortedByCount(_, _)
SortedByCount(pairs, n) ==
    IF n = 0 THEN <<>>
    ELSE LET sorted == SortedByCount(pairs, n - 1)
             ahead == Cardinality({k \in 1..Len(sorted) :
                                      sorted[k][2] >= pairs[n][2]})
         IN  SubSeq(sorted, 1, ahead) \o <<pairs[n]>>
                 \o SubSeq(sorted, ahead + 1, Len(sorted))

\* seq[:limit]
SliceTo(seq, limit) ==
    IF limit >= 0
    THEN SubSeq(seq, 1, IF limit < Len(seq) THEN limit ELSE Len(seq))
    ELSE SubSeq(seq, 1, IF Len(seq) + limit > 0 THEN Len(seq) + limit ELSE 0)

\* mutant of get_popular_items: only the loans not yet returned are counted
get_popular_items_ActiveOnly(S, limit) ==
    LET open == SelectSeq(S.loans, LAMBDA l : ~l.is_returned)
        T == [S EXCEPT !.loans = open,
                       !.loan_keys = [k \in 1..Len(open) |-> k]]
        counts == ItemLoanCounts(T, Len(T.loan_keys))
        top == SliceTo(SortedByCount(counts, Len(counts)), limit)
    IN  [k \in 1..Len(top) |-> [item |-> S.items[top[k][1]], count |-> top[k][2]]]

get_popular_items(S, limit) ==
    LET counts == ItemLoanCounts(S, Len(S.loan_keys))
        top == SliceTo(SortedByCount(counts, Len(counts)), limit)
    IN  [k \in 1..Len(top) |-> [item |-> S.items[top[k][1]], count |-> top[k][2]]]

\* the errors validate_system_integrity reports, as a set (the order of the
\* list is not kept): loans whose user or item is not registered, and items
\* whose availability disagrees with their non-returned loans
validate_system_integrity(S) ==
    LET active(item_id) == {k \in 1..Len(S.loans) :
                               /\ S.loans[k].item_id = item_id
                               /\ ~S.loans[k].is_returned}
    IN  {[error |-> "references non-existent user", loan_id |-> k,
          id |-> S.loans[k].user_id] :
            k \in {j \in 1..Len(S.loans) : S.loans[j].user_id \notin DOMAIN S.users}}
        \cup
        {[error |-> "references non-existent item", loan_id |-> k,
          id |-> S.loans[k].item_id] :
            k \in {j \in 1..Len(S.loans) : S.loans[j].item_id \notin DOMAIN S.items}}
        \cup
        {[error |-> "has multiple active loans", loan_id |-> NoLoan, id |-> i] :
            i \in {j \in DOMAIN S.items : Cardinality(active(j)) > 1}}
        \cup
        {[error |-> "is marked available but has an active loan",
          loan_id |-> NoLoan, id |-> i] :
            i \in {j \in DOMAIN S.items :
                      Cardinality(active(j)) = 1 /\ S.items[j].is_available}}
        \cup
        {[error |-> "is marked unavailable but has no active loan",
          loan_id |-> NoLoan, id |-> i] :
            i \in {j \in DOMAIN S.items :
                      Cardinality(active(j)) = 0 /\ ~S.items[j].is_available}}

(***************************************************************************)
(* Persistence (database_manager.py, app.py).  A database is a record of    *)
(* its three tables: the items keyed by id, the users and the loans as the *)
(* rows in table order (INSERT OR REPLACE deletes the rows it conflicts     *)
(* with and appends the new one).  A text column that holds None is <<>>,  *)
(* a text in it is <<text>>.  Columns that are not read back into the      *)
(* state modelled here (titles, phone, hire and registration dates) are    *)
(* left out.                                                               *)
(***************************************************************************)
\* the users row written by save_user
save_user(user) ==
    IF user.role = "Member"
    THEN [user_id |-> user.user_id, name |-> user.name, email |-> user.email,
          role |-> "Member",
          membership_expiry |-> <<isoformat(user.membership_expiry)>>,
          fines_owed |-> user.fines_owed, staff_role |-> <<>>]
    ELSE [user_id |-> user.user_id, name |-> user.name, email |-> user.email,
          role |-> "Staff",
          membership_expiry |-> <<>>,
          fines_owed |-> 0, staff_role |-> <<user.staff_role>>]

\* _row_to_user at time t: a new Member or Staff object (its borrowed-items
\* list and its loan history are empty), with the expiry and the fines of
\* the row; a staff role that is None or the empty text gives a Librarian
row_to_user(row, t) ==
    IF row.role = "Member"
    THEN [NewMember(row.user_id, t) EXCEPT
            !.name = row.name,
            !.email = row.email,
            !.membership_expiry = IF Len(row.membership_expiry) > 0
                                  THEN fromisoformat(row.membership_expiry[1])
                                  ELSE @,
            !.fines_owed = row.fines_owed]
    ELSE [NewStaff(row.user_id,
                   IF Len(row.staff_role) > 0 /\ row.staff_role[1] # ""
                   THEN row.staff_role[1] ELSE "Librarian")
            EXCEPT !.name = row.name, !.email = row.email]

\* the items row written by save_item
save_item(item) ==
    [item_id |-> item.item_id, item_type |-> item.item_type,
     is_available |-> item.is_available]

\* _row_to_item: a new item of the row's type with the row's availability
row_to_item(row) ==
    [NewItem(row.item_id, row.item_type) EXCEPT
        !.is_available = row.is_available]

\* save_loan at time t: the loans row written, and the loan after the call
\* (the fine is read through the fine_amount property, which stores the
\* current fine in a loan that is not returned)
save_loan(loan, loan_id, t, rate) ==
    LET read == ReadFineAmount(loan, t, rate)
    IN  [row |->
            [loan_id |-> loan_id, user_id |-> loan.user_id,
             item_id |-> loan.item_id,
             date_borrowed |-> isoformat(loan.date_borrowed),
             date_due |-> isoformat(loan.date_due),
             date_returned |-> IF loan.date_returned # NoDate
                               THEN <<isoformat(loan.date_returned)>>
                               ELSE <<>>,
             is_returned |-> loan.is_returned,
             fine_amount |-> read.value,
             renewal_count |-> loan.renewal_count],
         loan |-> read.loan]

\* _row_to_loan at time t
row_to_loan(row, t) ==
    LET date_borrowed == fromisoformat(row.date_borrowed)
        date_due == fromisoformat(row.date_due)
        loan_period == WholeDays(date_due - date_borrowed)
    IN  [NewLoan(row.user_id, row.item_id, loan_period, t) EXCEPT
            !.date_borrowed = date_borrowed,
            !.date_due = date_due,
            !.is_returned = row.is_returned,
            !.fine_amount = row.fine_amount,
            !.renewal_count = row.renewal_count,
            !.date_returned = IF Len(row.date_returned) > 0
                              THEN fromisoformat(row.date_returned[1])
                              ELSE @]

\* the database of a new DatabaseManager: three empty tables
EmptyDatabase == [users |-> <<>>, items |-> EmptyDict, loans |-> <<>>]

\* get_all_users(): the rows of the users table ORDER BY name; rows of one
\* name stay in table order
get_all_users(database) ==
    LET NameRank(name) == CHOOSE k \in 1..Len(Names) : Names[k] = name
        RECURSIVE UsersByName(_)
        UsersByName(n) ==
            IF n = 0 THEN <<>>
            ELSE LET row == database.users[n]
                     sorted == UsersByName(n - 1)
                     ahead == Cardinality({k \in 1..Len(sorted) :
                                  NameRank(sorted[k].name) <= NameRank(row.name)})
                 IN  SubSeq(sorted, 1, ahead) \o <<row>>
                        \o SubSeq(sorted, ahead + 1, Len(sorted))
    IN  UsersByName(Len(database.users))

\* get_loans_by_user(user_id): the rows of the user's loans, ORDER BY
\* date_borrowed DESC; rows of one timestamp stay in table order.  The
\* timestamp of a row, as far as the ordering tells two of them apart, is the
\* tick and, within the tick, the number of times the clock had advanced when
\* the loan was created: same holds the ids of the loans created at the very
\* timestamp of the loan created before them (a clock read twice without
\* advancing)
get_loans_by_user(database, user_id, same) ==
    LET Timestamp(row) ==
            <<fromisoformat(row.date_borrowed),
              Cardinality({j \in 1..row.loan_id : j \notin same})>>
        NotBefore(t1, t2) == t1[1] > t2[1] \/ (t1[1] = t2[1] /\ t1[2] >= t2[2])
        RECURSIVE LoansByUser(_)
        LoansByUser(n) ==
            IF n = 0 THEN <<>>
            ELSE LET row == database.loans[n]
                     sorted == LoansByUser(n - 1)
                     ahead == Cardinality({k \in 1..Len(sorted) :
                                  NotBefore(Timestamp(sorted[k]), Timestamp(row))})
                 IN  IF row.user_id # user_id THEN sorted
                     ELSE SubSeq(sorted, 1, ahead) \o <<row>>
                             \o SubSeq(sorted, ahead + 1, Len(sorted))
    IN  LoansByUser(Len(database.loans))

\* load_data_from_database at time t into a new directory of a process whose
\* fine rate is rate: the users and the items of the database are
\* registered; the loans of the users are put into the loan registry user by
\* user, the users in the order of get_all_users, and for each loan not
\* returned the id goes to the active-loan index and the item, if
\* registered, is marked unavailable.  Loan ids stay the numbers in the
\* order of creation, counted among the loans loaded
load_data_from_database(database, t, rate, same) ==
    LET loaded_users == get_all_users(database)
        user_ids == {loaded_users[k].user_id : k \in 1..Len(loaded_users)}
        user_row(u) == loaded_users[CHOOSE k \in 1..Len(loaded_users) :
                                      loaded_users[k].user_id = u]
        RECURSIVE AllLoans(_)
        AllLoans(n) ==
            IF n = 0 THEN <<>>
            ELSE AllLoans(n - 1)
                    \o get_loans_by_user(database, loaded_users[n].user_id, same)
        all_loans == AllLoans(Len(loaded_users))
        loaded == {all_loans[k].loan_id : k \in 1..Len(all_loans)}
        id(row) == Cardinality({x \in loaded : x <= row.loan_id})
        keys == [k \in 1..Len(all_loans) |-> id(all_loans[k])]
        row_of(n) == all_loans[CHOOSE k \in 1..Len(keys) : keys[k] = n]
        open(u) == SelectSeq(all_loans,
                             LAMBDA r : r.user_id = u /\ ~r.is_returned)
        on_loan(i) == \E k \in 1..Len(all_loans) :
                         all_loans[k].item_id = i /\ ~all_loans[k].is_returned
    IN  [now |-> t,
         users |-> [u \in user_ids |-> row_to_user(user_row(u), t)],
         items |-> [i \in DOMAIN database.items |->
                      IF on_loan(i)
                      THEN [row_to_item(database.items[i]) EXCEPT
                              !.is_available = FALSE]
                      ELSE row_to_item(database.items[i])],
         loans |-> [n \in 1..Len(keys) |-> row_to_loan(row_of(n), t)],
         loan_keys |-> keys,
         active_loans |-> [u \in user_ids |->
                             [k \in 1..Len(open(u)) |-> id(open(u)[k])]],
         daily_fine_rate |-> rate]

(***************************************************************************)
(* The frontend (member_interface.py, staff_interface.py): each handler    *)
(* calls the directory and, when the call succeeds, writes the objects it  *)
(* touched to the database, each write in a commit of its own.  An         *)
(* application state is the directory with the database; a handler gives   *)
(* the application state after the call and whether the call succeeded.    *)
(* The logged-in user of the member handlers is the directory's user       *)
(* object of that id.                                                      *)
(***************************************************************************)
\* the position of the session in a handler that commits several times:
\* <<handler, next commit, user id, item id>>, or Idle when no handler runs
Idle == <<>>

App(S, database) == [S |-> S, db |-> database]

AppRet(A, ok) == [S |-> A.S, db |-> A.db, ok |-> ok]

\* db_manager.save_loan(loan) on a loan of the registry
SaveLoan(A, loan_id) ==
    LET saved == save_loan(A.S.loans[loan_id], loan_id, A.S.now,
                           A.S.daily_fine_rate)
    IN  [A EXCEPT !.S.loans[loan_id] = saved.loan,
                  !.db.loans =
                     Append(SelectSeq(@, LAMBDA r : r.loan_id # loan_id),
                            saved.row)]

\* item = library.get_item(item_id); if item: db_manager.save_item(item)
SaveItem(A, item_id) ==
    IF item_id \in DOMAIN A.S.items
    THEN [A EXCEPT !.db.items = DictPut(@, item_id, save_item(A.S.items[item_id]))]
    ELSE A

\* db_manager.save_user(user) on a user of the registry: INSERT OR REPLACE
\* deletes the row of the id and every row of the same e-mail address, and
\* the new row is the last of the table
SaveUser(A, user_id) ==
    LET row == save_user(A.S.users[user_id])
    IN  [A EXCEPT !.db.users =
                     Append(SelectSeq(@, LAMBDA r : /\ r.user_id # row.user_id
                                                   /\ r.email # row.email),
                            row)]

\* the loop of return_item over get_user_loans(active_only=False): the first
\* loan of the registry of this user and item that is returned, NoLoan if none
FirstReturnedLoan(S, user_id, item_id) ==
    LET ids == S.loan_keys
        hit(k) == /\ S.loans[ids[k]].user_id = user_id
                  /\ S.loans[ids[k]].item_id = item_id
                  /\ S.loans[ids[k]].is_returned
    IN  IF \E k \in 1..Len(ids) : hit(k)
        THEN ids[CHOOSE k \in 1..Len(ids) :
                     hit(k) /\ \A j \in 1..(k - 1) : ~hit(j)]
        ELSE NoLoan

\* the loop of the frontend's renew_loan over get_user_loans(active_only=True):
\* the first loan of the user's active-loan list of this item, NoLoan if none
FirstListedLoan(S, user_id, item_id) ==
    LET ids == DictGet(S.active_loans, user_id, <<>>)
        hit(k) == /\ ids[k] \in 1..Len(S.loans)
                  /\ S.loans[ids[k]].item_id = item_id
    IN  IF \E k \in 1..Len(ids) : hit(k)
        THEN ids[CHOOSE k \in 1..Len(ids) :
                     hit(k) /\ \A j \in 1..(k - 1) : ~hit(j)]
        ELSE NoLoan

\* member_interface.borrow_item(item_id) with user_id logged in, through its
\* first commit: check_out_item and, when it succeeds, save_loan of the new
\* loan.  The handler goes on with save_item and save_user
borrow_item_save_loan(A, user_id, item_id) ==
    LET r == check_out_item(A.S, user_id, item_id)
        A1 == [A EXCEPT !.S = r.S]
        loan_id == FindActiveLoan(r.S, user_id, item_id)
    IN  IF r.ok
        THEN AppRet(IF loan_id # NoLoan THEN SaveLoan(A1, loan_id) ELSE A1, TRUE)
        ELSE AppRet(A1, FALSE)

\* member_interface.return_item(item_id) with user_id logged in, through its
\* first commit: check_in_item and, when it succeeds, save_loan of the
\* returned loan.  The handler goes on with save_item and save_user
return_item_save_loan(A, user_id, item_id) ==
    LET r == check_in_item(A.S, user_id, item_id)
        A1 == [A EXCEPT !.S = r.S]
        loan_id == FirstReturnedLoan(r.S, user_id, item_id)
    IN  IF r.ok
        THEN AppRet(IF loan_id # NoLoan THEN SaveLoan(A1, loan_id) ELSE A1, TRUE)
        ELSE AppRet(A1, FALSE)

\* member_interface.renew_loan(item_id) with user_id logged in
member_renew_loan(A, user_id, item_id) ==
    LET r == renew_loan(A.S, user_id, item_id)
        A1 == [A EXCEPT !.S = r.S]
        loan_id == FirstListedLoan(r.S, user_id, item_id)
    IN  IF r.ok /\ loan_id # NoLoan THEN AppRet(SaveLoan(A1, loan_id), TRUE)
        ELSE AppRet(A1, r.ok)

\* staff_interface.add_new_item(item_type, item_id, ...)
add_new_item(A, item_type, item_id) ==
    IF item_type \notin {"Book", "Magazine", "DVD"} THEN AppRet(A, FALSE)
    ELSE LET r == add_item(A.S, item_id, item_type)
             A1 == [A EXCEPT !.S = r.S]
         IN  IF r.ok
             THEN AppRet([A1 EXCEPT !.db.items =
                             DictPut(@, item_id, save_item(r.S.items[item_id]))],
                         TRUE)
             ELSE AppRet(A1, FALSE)

\* staff_interface.remove_item(item_id): the item is deleted from the items
\* table when the directory removed it
staff_remove_item(A, item_id) ==
    LET r == remove_item(A.S, item_id)
        A1 == [A EXCEPT !.S = r.S]
    IN  IF r.ok
        THEN AppRet([A1 EXCEPT !.db.items = DictDel(@, item_id)], TRUE)
        ELSE AppRet(A1, FALSE)

\* staff_interface.register_new_user(user_type, user_id, name, email, ...)
\* with the staff role of the form: the constructor raises for an empty name
\* and for an address that is not valid, and the handler returns False
register_new_user(A, user_type, user_id, name, email, staff_role) ==
    IF \/ user_type \notin {"Member", "Staff"}
       \/ name = ""
       \/ ~is_valid_email(email)
    THEN AppRet(A, FALSE)
    ELSE LET user == IF user_type = "Member"
                     THEN [NewMember(user_id, A.S.now) EXCEPT
                             !.name = name, !.email = email]
                     ELSE [NewStaff(user_id, staff_role) EXCEPT
                             !.name = name, !.email = email]
             r == register_user(A.S, user_id,
                                IF user_type = "Member" THEN "Member"
                                ELSE "Librarian")
             A1 == [A EXCEPT !.S = IF r.ok
                                   THEN [r.S EXCEPT !.users[user_id] = user]
                                   ELSE r.S]
         IN  IF r.ok THEN AppRet(SaveUser(A1, user_id), TRUE)
             ELSE AppRet(A1, FALSE)

(***************************************************************************)
(* The state machine: one action per operation of the directory, and the   *)
(* clock.                                                                  *)
(***************************************************************************)
Init ==
    /\ now = 0
    /\ items = EmptyDict
    /\ users = EmptyDict
    /\ loans = <<>>
    /\ loan_keys = <<>>
    /\ active_loans = EmptyDict
    /\ daily_fine_rate = DefaultDailyFineRate
    /\ db = EmptyDatabase
    /\ pc = Idle

\* the directory moves to the state after the call
Call(r) ==
    /\ now' = r.S.now
    /\ items' = r.S.items
    /\ users' = r.S.users
    /\ loans' = r.S.loans
    /\ loan_keys' = r.S.loan_keys
    /\ active_loans' = r.S.active_loans
    /\ daily_fine_rate' = r.S.daily_fine_rate
    /\ UNCHANGED <<db, pc>>

RegisterUser(user_id, kind) == Call(register_user(St, user_id, kind))

RemoveUser(user_id) == Call(remove_user(St, user_id))

AddItem(item_id, item_type) == Call(add_item(St, item_id, item_type))

RemoveItem(item_id) == Call(remove_item(St, item_id))

\* check_out_item while the loan registry holds at most max_loans loans
CheckOutItemUpTo(max_loans, user_id, item_id) ==
    LET r == check_out_item(St, user_id, item_id)
    IN  /\ Len(r.S.loans) <= max_loans
        /\ Call(r)

CheckInItem(user_id, item_id) == Call(check_in_item(St, user_id, item_id))

RenewLoan(user_id, item_id) == Call(renew_loan(St, user_id, item_id))

\* library.get_system_statistics() called on the directory, from a page
\* between handlers
GetSystemStatistics ==
    /\ pc = Idle
    /\ Call(get_system_statistics(St))

Tick(d) ==
    /\ now + d <= MaxNow
    /\ now' = now + d
    /\ UNCHANGED <<items, users, loans, loan_keys,
                 active_loans, daily_fine_rate, db,
                 pc>>

Next ==
    \/ \E u \in UserIds : \E k \in UserKindsOf(u) : RegisterUser(u, k)
    \/ \E u \in UserIds : RemoveUser(u)
    \/ \E i \in ItemIds : \E ty \in ItemTypesOf(i) : AddItem(i, ty)
    \/ \E i \in ItemIds : RemoveItem(i)
    \/ \E u \in UserIds, i \in ItemIds : CheckOutItemUpTo(MaxLoans, u, i)
    \/ \E u \in UserIds, i \in ItemIds : CheckInItem(u, i)
    \/ \E u \in UserIds, i \in ItemIds : RenewLoan(u, i)
    \/ GetSystemStatistics
    \/ \E d \in TickSteps : Tick(d)

Spec == Init /\ [][Next]_vars

(***************************************************************************)
(* The stocked library: the directory after the three users registered at  *)
(* time t and each checked out, one by one, freshly added items up to one  *)
(* less than the role's borrowing limit.  The state is built by the        *)
(* directory's own operations; the clock stands still afterwards.          *)
(***************************************************************************)
StockItemId(user_id, n) == user_id \o "-s" \o ToString(n)

StockItemType(n) ==
    IF n % 3 = 1 THEN "Book" ELSE IF n % 3 = 2 THEN "Magazine" ELSE "DVD"

RECURSIVE Stock(_, _, _)
\* add_item and check_out_item of n items for one user, for as long as the
\* checkouts succeed
Stock(S, user_id, n) ==
    IF n = 0 THEN S
    ELSE LET S1 == add_item(S, StockItemId(user_id, n), StockItemType(n)).S
             r == check_out_item(S1, user_id, StockItemId(user_id, n))
         IN  IF r.ok THEN Stock(r.S, user_id, n - 1) ELSE r.S

StockedLibrary(t) ==
    LET S0 == [now |-> t, items |-> EmptyDict, users |-> EmptyDict,
               loans |-> <<>>, loan_keys |-> <<>>,
               active_loans |-> EmptyDict,
               daily_fine_rate |-> DefaultDailyFineRate]
        S1 == register_user(S0, "u1", "Member").S
        S2 == register_user(S1, "u2", "Librarian").S
        S3 == register_user(S2, "u3", "Manager").S
        S4 == Stock(S3, "u1", get_borrowing_limit(S3.users["u1"]) - 1)
        S5 == Stock(S4, "u2", get_borrowing_limit(S4.users["u2"]) - 1)
    IN  Stock(S5, "u3", get_borrowing_limit(S5.users["u3"]) - 1)

\* the number of loans of the stocked library
StockLoans ==
    (DefaultBorrowingLimit - 1) + (LibrarianBorrowingLimit - 1)
        + (ManagerBorrowingLimit - 1)

\* the stocked libraries the specification starts from
InitLimit ==
    \E S \in {StockedLibrary(t) : t \in StockTimes} :
        /\ now = S.now
        /\ items = S.items
        /\ users = S.users
        /\ loans = S.loans
        /\ loan_keys = S.loan_keys
        /\ active_loans = S.active_loans
        /\ daily_fine_rate = S.daily_fine_rate
        /\ db = EmptyDatabase
        /\ pc = Idle

NextLimit ==
    \/ \E u \in LimitUserIds : \E k \in UserKindsOf(u) : RegisterUser(u, k)
    \/ \E u \in LimitUserIds : RemoveUser(u)
    \/ \E i \in LimitItemIds : \E ty \in ItemTypesOf(i) : AddItem(i, ty)
    \/ \E i \in LimitItemIds : RemoveItem(i)
    \/ \E u \in LimitUserIds, i \in LimitItemIds :
          CheckOutItemUpTo(StockLoans + MaxNewLoans, u, i)
    \/ \E u \in LimitUserIds, i \in LimitItemIds : CheckInItem(u, i)
    \/ \E u \in LimitUserIds, i \in LimitItemIds : RenewLoan(u, i)

SpecLimit == InitLimit /\ [][NextLimit]_vars

(***************************************************************************)
(* The loan desk: a directory in which one member has checked out one      *)
(* magazine at time 0.  The loan is reached through the directory and      *)
(* directly through the Loan object's methods (return_item, renew_loan,    *)
(* the fine_amount property), while the clock advances by single ticks and *)
(* the process-wide fine rate is set.                                      *)
(***************************************************************************)
LoanDesk ==
    LET S0 == [now |-> 0, items |-> EmptyDict, users |-> EmptyDict,
               loans |-> <<>>, loan_keys |-> <<>>,
               active_loans |-> EmptyDict,
               daily_fine_rate |-> DefaultDailyFineRate]
        S1 == register_user(S0, "u1", "Member").S
        S2 == add_item(S1, "i1", "Magazine").S
    IN  check_out_item(S2, "u1", "i1").S

InitLoan ==
    /\ now = LoanDesk.now
    /\ items = LoanDesk.items
    /\ users = LoanDesk.users
    /\ loans = LoanDesk.loans
    /\ loan_keys = LoanDesk.loan_keys
    /\ active_loans = LoanDesk.active_loans
    /\ daily_fine_rate = LoanDesk.daily_fine_rate
    /\ db = EmptyDatabase
    /\ pc = Idle

\* loan.return_item(return_date) called on a loan of the registry; a call
\* that raises leaves everything as it was
LoanReturn(loan_id, return_date) ==
    /\ loans' = [loans EXCEPT ![loan_id] =
                    LoanReturnItemCall(@, return_date, now,
                                       daily_fine_rate).loan]
    /\ UNCHANGED <<now, items, users, loan_keys,
                 active_loans, daily_fine_rate, db,
                 pc>>

\* loan.renew_loan(additional_days) called on a loan of the registry
LoanRenew(loan_id, additional_days) ==
    /\ loans' = [loans EXCEPT ![loan_id] =
                    LoanRenewLoan(@, additional_days, now)[2]]
    /\ UNCHANGED <<now, items, users, loan_keys,
                 active_loans, daily_fine_rate, db,
                 pc>>

\* loan.fine_amount read on a loan of the registry
ReadFine(loan_id) ==
    /\ loans' = [loans EXCEPT ![loan_id] =
                    ReadFineAmount(@, now, daily_fine_rate).loan]
    /\ UNCHANGED <<now, items, users, loan_keys,
                 active_loans, daily_fine_rate, db,
                 pc>>

SetDailyFineRate(rate) ==
    /\ daily_fine_rate' = set_daily_fine_rate(daily_fine_rate, rate).rate
    /\ UNCHANGED <<now, items, users, loans, loan_keys, active_loans, db,
                 pc>>

\* the clock advances by d while it stays within max_now
TickUpTo(max_now, d) ==
    /\ now + d <= max_now
    /\ now' = now + d
    /\ UNCHANGED <<items, users, loans, loan_keys,
                 active_loans, daily_fine_rate, db,
                 pc>>

NextLoan ==
    \/ \E u \in DeskUserIds, i \in DeskItemIds : CheckInItem(u, i)
    \/ \E u \in DeskUserIds, i \in DeskItemIds : RenewLoan(u, i)
    \/ \E l \in 1..Len(loans) : \E d \in ReturnDates : LoanReturn(l, d)
    \/ \E l \in 1..Len(loans) : \E d \in RenewalDays : LoanRenew(l, d)
    \/ \E l \in 1..Len(loans) : ReadFine(l)
    \/ \E rate \in FineRates : SetDailyFineRate(rate)
    \/ TickUpTo(MaxDeskNow, 1)

SpecLoan == InitLoan /\ [][NextLoan]_vars

(***************************************************************************)
(* The member desk: a member whose magazine is overdue when the membership *)
(* is about to expire.  Fines are added and paid on the Member object, the *)
(* magazine is checked in through the directory, and the clock crosses the *)
(* membership expiry tick by tick.                                         *)
(***************************************************************************)
MemberDesk ==
    LET S0 == [now |-> 0, items |-> EmptyDict, users |-> EmptyDict,
               loans |-> <<>>, loan_keys |-> <<>>,
               active_loans |-> EmptyDict,
               daily_fine_rate |-> DefaultDailyFineRate]
        S1 == register_user(S0, "u1", "Member").S
        S2 == add_item(S1, "i1", "Magazine").S
        S3 == add_item(S2, "i2", "Book").S
        S4 == check_out_item([S3 EXCEPT !.now = MemberCheckoutTime],
                             "u1", "i1").S
    IN  [S4 EXCEPT !.now = MemberDeskOpens]

InitMember ==
    /\ now = MemberDesk.now
    /\ items = MemberDesk.items
    /\ users = MemberDesk.users
    /\ loans = MemberDesk.loans
    /\ loan_keys = MemberDesk.loan_keys
    /\ active_loans = MemberDesk.active_loans
    /\ daily_fine_rate = MemberDesk.daily_fine_rate
    /\ db = EmptyDatabase
    /\ pc = Idle

\* member.add_fine(amount) called on a member of the registry
AddFine(user_id, amount) ==
    /\ user_id \in DOMAIN users
    /\ HasAttr(users[user_id], "fines_owed")
    /\ add_fine(users[user_id], amount).fines_owed <= MaxFinesOwed
    /\ users' = [users EXCEPT ![user_id] = add_fine(@, amount)]
    /\ UNCHANGED <<now, items, loans, loan_keys,
                 active_loans, daily_fine_rate, db,
                 pc>>

\* member.pay_fine(amount) called on a member of the registry
PayFine(user_id, amount) ==
    /\ user_id \in DOMAIN users
    /\ HasAttr(users[user_id], "fines_owed")
    /\ users' = [users EXCEPT ![user_id] = pay_fine(@, amount).user]
    /\ UNCHANGED <<now, items, loans, loan_keys,
                 active_loans, daily_fine_rate, db,
                 pc>>

\* member.renew_membership(months) called on a member of the registry, while
\* the expiry stays within MaxMembershipExpiry; a call that raises leaves
\* everything as it was
RenewMembership(user_id, months) ==
    /\ user_id \in DOMAIN users
    /\ HasAttr(users[user_id], "membership_expiry")
    /\ renew_membership(users[user_id], months, now).user.membership_expiry
          <= MaxMembershipExpiry
    /\ users' = [users EXCEPT ![user_id] = renew_membership(@, months, now).user]
    /\ UNCHANGED <<now, items, loans, loan_keys,
                 active_loans, daily_fine_rate, db,
                 pc>>

NextMember ==
    \/ \E u \in MemberUserIds, a \in AddFineAmounts : AddFine(u, a)
    \/ \E u \in MemberUserIds, a \in PayFineAmounts : PayFine(u, a)
    \/ \E u \in MemberUserIds, m \in RenewalMonths : RenewMembership(u, m)
    \/ \E u \in MemberUserIds, i \in MemberItemIds : CheckInItem(u, i)
    \/ GetSystemStatistics
    \/ TickUpTo(MaxMemberNow, 1)

SpecMember == InitMember /\ [][NextMember]_vars

(***************************************************************************)
(* The payment desk: the member desk with all operations of the directory   *)
(* and pay_fine, and without direct calls of add_fine.                      *)
(***************************************************************************)
NextPaid ==
    \/ \E u \in MemberUserIds : RegisterUser(u, "Member")
    \/ \E u \in MemberUserIds : RemoveUser(u)
    \/ \E i \in MemberItemIds : \E ty \in ItemTypesOf(i) : AddItem(i, ty)
    \/ \E i \in MemberItemIds : RemoveItem(i)
    \/ \E u \in MemberUserIds, a \in PayFineAmounts : PayFine(u, a)
    \/ \E u \in MemberUserIds, i \in MemberItemIds :
          CheckOutItemUpTo(MaxPaidLoans, u, i)
    \/ \E u \in MemberUserIds, i \in MemberItemIds : CheckInItem(u, i)
    \/ \E u \in MemberUserIds, i \in MemberItemIds : RenewLoan(u, i)
    \/ GetSystemStatistics
    \/ TickUpTo(MaxMemberNow, 1)

SpecPaid == InitMember /\ [][NextPaid]_vars

(***************************************************************************)
(* The report desk: a directory whose items gather loans, for the reports   *)
(* computed from the loan registry.  No time passes.                        *)
(***************************************************************************)
ReportDesk ==
    LET S0 == [now |-> 0, items |-> EmptyDict, users |-> EmptyDict,
               loans |-> <<>>, loan_keys |-> <<>>,
               active_loans |-> EmptyDict,
               daily_fine_rate |-> DefaultDailyFineRate]
        S1 == register_user(S0, "u3", "Manager").S
        S2 == add_item(S1, "i1", "Magazine").S
        S3 == add_item(S2, "i2", "Book").S
    IN  add_item(S3, "i3", "DVD").S

InitReport ==
    /\ now = ReportDesk.now
    /\ items = ReportDesk.items
    /\ users = ReportDesk.users
    /\ loans = ReportDesk.loans
    /\ loan_keys = ReportDesk.loan_keys
    /\ active_loans = ReportDesk.active_loans
    /\ daily_fine_rate = ReportDesk.daily_fine_rate
    /\ db = EmptyDatabase
    /\ pc = Idle

NextReport ==
    \/ \E i \in ReportItemIds : \E ty \in ItemTypesOf(i) : AddItem(i, ty)
    \/ \E i \in ReportItemIds : RemoveItem(i)
    \/ \E u \in ReportUserIds, i \in ReportItemIds :
          CheckOutItemUpTo(MaxReportLoans, u, i)
    \/ \E u \in ReportUserIds, i \in ReportItemIds : CheckInItem(u, i)

SpecReport == InitReport /\ [][NextReport]_vars

(***************************************************************************)
(* The staff desk: a staff user of the registry whose role is assigned and  *)
(* whose permissions are added and removed.                                 *)
(***************************************************************************)
StaffDesk ==
    LET S0 == [now |-> 0, items |-> EmptyDict, users |-> EmptyDict,
               loans |-> <<>>, loan_keys |-> <<>>,
               active_loans |-> EmptyDict,
               daily_fine_rate |-> DefaultDailyFineRate]
    IN  register_user(S0, "u2", "Librarian").S

InitStaff ==
    /\ now = StaffDesk.now
    /\ items = StaffDesk.items
    /\ users = StaffDesk.users
    /\ loans = StaffDesk.loans
    /\ loan_keys = StaffDesk.loan_keys
    /\ active_loans = StaffDesk.active_loans
    /\ daily_fine_rate = StaffDesk.daily_fine_rate
    /\ db = EmptyDatabase
    /\ pc = Idle

\* staff.staff_role = value on a staff user of the registry; an assignment
\* that raises leaves the object as it was
SetStaffRole(user_id, value) ==
    /\ user_id \in DOMAIN users
    /\ HasAttr(users[user_id], "staff_role")
    /\ users' = [users EXCEPT ![user_id] = set_staff_role(@, value).user]
    /\ UNCHANGED <<now, items, loans, loan_keys,
                 active_loans, daily_fine_rate, db,
                 pc>>

AddPermission(user_id, permission) ==
    /\ user_id \in DOMAIN users
    /\ HasAttr(users[user_id], "permissions")
    /\ users' = [users EXCEPT ![user_id] = add_permission(@, permission).user]
    /\ UNCHANGED <<now, items, loans, loan_keys,
                 active_loans, daily_fine_rate, db,
                 pc>>

RemovePermission(user_id, permission) ==
    /\ user_id \in DOMAIN users
    /\ HasAttr(users[user_id], "permissions")
    /\ users' = [users EXCEPT ![user_id] =
                    remove_permission(@, permission).user]
    /\ UNCHANGED <<now, items, loans, loan_keys,
                 active_loans, daily_fine_rate, db,
                 pc>>

NextStaff ==
    \/ \E u \in StaffUserIds, v \in AssignedRoles : SetStaffRole(u, v)
    \/ \E u \in StaffUserIds, p \in PermissionNames : AddPermission(u, p)
    \/ \E u \in StaffUserIds, p \in PermissionNames : RemovePermission(u, p)

SpecStaff == InitStaff /\ [][NextStaff]_vars

(***************************************************************************)
(* The application desk: the frontend over a new database.  Member u1 was   *)
(* registered through the staff interface and borrowed, through the member *)
(* interface, stock items up to one less than the borrowing limit.  Every  *)
(* step is a frontend handler, the statistics of the staff dashboard, or   *)
(* the clock.                                                              *)
(***************************************************************************)
RECURSIVE AppStock(_, _, _)
\* add_new_item and borrow_item, run to its end, of n items for one user
AppStock(A, user_id, n) ==
    IF n = 0 THEN A
    ELSE LET item_id == StockItemId(user_id, n)
             a == add_new_item(A, StockItemType(n), item_id)
             b == borrow_item_save_loan(App(a.S, a.db), user_id, item_id)
             c == SaveUser(SaveItem(b, item_id), user_id)
         IN  AppStock(App(c.S, c.db), user_id, n - 1)

AppDesk ==
    LET S0 == [now |-> 0, items |-> EmptyDict, users |-> EmptyDict,
               loans |-> <<>>, loan_keys |-> <<>>,
               active_loans |-> EmptyDict,
               daily_fine_rate |-> DefaultDailyFineRate]
        a == register_new_user(App(S0, EmptyDatabase), "Member", "u1", "Bob",
                               EmailOf("u1"), "Librarian")
    IN  AppStock(App(a.S, a.db), "u1", DefaultBorrowingLimit - 1)

InitApp ==
    /\ now = AppDesk.S.now
    /\ items = AppDesk.S.items
    /\ users = AppDesk.S.users
    /\ loans = AppDesk.S.loans
    /\ loan_keys = AppDesk.S.loan_keys
    /\ active_loans = AppDesk.S.active_loans
    /\ daily_fine_rate = AppDesk.S.daily_fine_rate
    /\ db = AppDesk.db
    /\ pc = Idle

\* the application moves to the state after the handler or after a commit of
\* it
CallApp(r) ==
    /\ now' = r.S.now
    /\ items' = r.S.items
    /\ users' = r.S.users
    /\ loans' = r.S.loans
    /\ loan_keys' = r.S.loan_keys
    /\ active_loans' = r.S.active_loans
    /\ daily_fine_rate' = r.S.daily_fine_rate
    /\ db' = r.db

RegisterNewUser(user_type, user_id, name, email, staff_role) ==
    /\ pc = Idle
    /\ CallApp(register_new_user(App(St, db), user_type, user_id, name, email,
                                 staff_role))
    /\ UNCHANGED pc

AddNewItem(item_type, item_id) ==
    /\ pc = Idle
    /\ CallApp(add_new_item(App(St, db), item_type, item_id))
    /\ UNCHANGED pc

StaffRemoveItem(item_id) ==
    /\ pc = Idle
    /\ CallApp(staff_remove_item(App(St, db), item_id))
    /\ UNCHANGED pc

\* render_account_info with member user_id logged in: loan.fine_amount is
\* read on every loan of the member, and the read stores the fine of a loan
\* that is not returned.  The dashboard and the loans page read it on the
\* member's loans not returned; the pages of the staff interface read it on
\* the loans get_system_statistics reads it on, or on returned loans
RenderAccountInfo(user_id) ==
    /\ pc = Idle
    /\ user_id \in DOMAIN users
    /\ users[user_id].role = "Member"
    /\ loans' = FinesRead(St, SelectSeq(loan_keys,
                                        LAMBDA k : loans[k].user_id = user_id))
    /\ UNCHANGED <<now, items, users, loan_keys, active_loans,
                   daily_fine_rate, db, pc>>

\* borrow_item through its first commit, while the loan registry holds at
\* most max_loans loans; user_id is a member logged in
MemberBorrowItemUpTo(max_loans, user_id, item_id) ==
    LET r == borrow_item_save_loan(App(St, db), user_id, item_id)
    IN  /\ pc = Idle
        /\ user_id \in DOMAIN users
        /\ users[user_id].role = "Member"
        /\ Len(r.S.loans) <= max_loans
        /\ CallApp(r)
        /\ pc' = IF r.ok THEN <<"borrow_item", "save_item", user_id, item_id>>
                 ELSE Idle

\* borrow_item: item = library.get_item(item_id); db_manager.save_item(item)
BorrowItemSaveItem ==
    /\ pc # Idle
    /\ pc[1] = "borrow_item" /\ pc[2] = "save_item"
    /\ CallApp(SaveItem(App(St, db), pc[4]))
    /\ pc' = <<"borrow_item", "save_user", pc[3], pc[4]>>

\* borrow_item: db_manager.save_user(member), the end of the handler
BorrowItemSaveUser ==
    /\ pc # Idle
    /\ pc[1] = "borrow_item" /\ pc[2] = "save_user"
    /\ CallApp(SaveUser(App(St, db), pc[3]))
    /\ pc' = Idle

\* return_item through its first commit; user_id is a member logged in
MemberReturnItem(user_id, item_id) ==
    LET r == return_item_save_loan(App(St, db), user_id, item_id)
    IN  /\ pc = Idle
        /\ user_id \in DOMAIN users
        /\ users[user_id].role = "Member"
        /\ CallApp(r)
        /\ pc' = IF r.ok THEN <<"return_item", "save_item", user_id, item_id>>
                 ELSE Idle

\* return_item: item = library.get_item(item_id); db_manager.save_item(item)
ReturnItemSaveItem ==
    /\ pc # Idle
    /\ pc[1] = "return_item" /\ pc[2] = "save_item"
    /\ CallApp(SaveItem(App(St, db), pc[4]))
    /\ pc' = <<"return_item", "save_user", pc[3], pc[4]>>

\* return_item: db_manager.save_user(member), the end of the handler
ReturnItemSaveUser ==
    /\ pc # Idle
    /\ pc[1] = "return_item" /\ pc[2] = "save_user"
    /\ CallApp(SaveUser(App(St, db), pc[3]))
    /\ pc' = Idle

\* renew_loan, which commits once; user_id is a member logged in
MemberRenewLoan(user_id, item_id) ==
    /\ pc = Idle
    /\ user_id \in DOMAIN users
    /\ users[user_id].role = "Member"
    /\ CallApp(member_renew_loan(App(St, db), user_id, item_id))
    /\ UNCHANGED pc

\* the session runs one handler at a time, and a handler that has committed
\* goes on to its next commit; the clock advances at any time, and the fine
\* rate, an attribute of the class Loan, is set from any session of the
\* process
NextApp ==
    \/ \E u \in AppUserIds, ty \in AppUserTypes, n \in AppNames,
          e \in AppEmails :
          RegisterNewUser(ty, u, n, e, "Librarian")
    \/ \E i \in AppItemIds : \E ty \in ItemTypesOf(i) : AddNewItem(ty, i)
    \/ \E i \in AppItemIds : StaffRemoveItem(i)
    \/ \E u \in AppUserIds : RenderAccountInfo(u)
    \/ \E u \in AppUserIds, i \in AppItemIds :
          MemberBorrowItemUpTo(DefaultBorrowingLimit - 1 + MaxAppNewLoans, u, i)
    \/ BorrowItemSaveItem
    \/ BorrowItemSaveUser
    \/ \E u \in AppUserIds, i \in AppItemIds : MemberReturnItem(u, i)
    \/ ReturnItemSaveItem
    \/ ReturnItemSaveUser
    \/ \E u \in AppUserIds, i \in AppItemIds : MemberRenewLoan(u, i)
    \/ \E rate \in FineRates : SetDailyFineRate(rate)
    \/ GetSystemStatistics
    \/ \E d \in TickSteps : Tick(d)

SpecApp == InitApp /\ [][NextApp]_vars

(***************************************************************************)
(* Vocabulary of the claims.                                               *)
(***************************************************************************)
LoanIds == 1..Len(loans)

IsActive(loan_id) == ~loans[loan_id].is_returned

\* the non-returned loans of the loan registry that reference an item id
ActiveLoansOfItem(item_id) ==
    {l \in LoanIds : loans[l].item_id = item_id /\ IsActive(l)}

\* the non-returned loans of the loan registry that reference a user id
ActiveLoansOfUser(user_id) ==
    {l \in LoanIds : loans[l].user_id = user_id /\ IsActive(l)}

Elems(seq) == {seq[k] : k \in 1..Len(seq)}

\* C1: for every registered item, is_available holds exactly when no
\* non-returned loan of the loan registry references the item's id.
C1_AvailableIffNoActiveLoan ==
    \A i \in DOMAIN items :
        items[i].is_available <=> (Cardinality(ActiveLoansOfItem(i)) = 0)

\* one registered item is on loan while another is back on the shelf after
\* a check-in
C1_Witness ==
    \E i \in DOMAIN items, j \in DOMAIN items :
        /\ ~items[i].is_available
        /\ \E l \in LoanIds : loans[l].item_id = i /\ IsActive(l)
        /\ items[j].is_available
        /\ \E l \in LoanIds : loans[l].item_id = j /\ ~IsActive(l)

\* C2: no item id is referenced by two non-returned loans, whoever the
\* borrowers are and whether or not the ids are still registered.
C2_AtMostOneActiveLoanPerItem ==
    \A l1 \in LoanIds, l2 \in LoanIds :
        (l1 # l2 /\ IsActive(l1) /\ IsActive(l2))
            => loans[l1].item_id # loans[l2].item_id

\* an item is on loan for the second time, to a member registered again
\* after the first loan (the fresh member object has no loan history)
C2_Witness ==
    \E l1 \in LoanIds, l2 \in LoanIds :
        /\ l1 < l2
        /\ loans[l1].item_id = loans[l2].item_id
        /\ ~IsActive(l1) /\ IsActive(l2)
        /\ loans[l1].user_id \in DOMAIN users
        /\ users[loans[l1].user_id].role = "Member"
        /\ users[loans[l1].user_id].loan_history = <<>>

\* C3: check_out_item is all-or-nothing.  A successful call appends one
\* loan to the registry, flips the item to unavailable, appends the loan id
\* to the user's active-loan list and the item id to the user's borrowed
\* items; a failing call changes none of the four.
C3_CheckOutAllOrNothing ==
    \A u \in UserIds, i \in ItemIds :
        LET r == check_out_item(St, u, i)
            all == /\ Len(r.S.loans) = Len(loans) + 1
                   /\ SubSeq(r.S.loans, 1, Len(loans)) = loans
                   /\ items[i].is_available /\ ~r.S.items[i].is_available
                   /\ r.S.active_loans[u]
                        = Append(active_loans[u], Len(loans) + 1)
                   /\ r.S.users[u].borrowed_items
                        = Append(users[u].borrowed_items, i)
                   /\ ~Contains(users[u].borrowed_items, i)
            none == /\ r.S.loans = loans
                    /\ r.S.items = items
                    /\ r.S.active_loans = active_loans
                    /\ r.S.users = users
        IN  IF r.ok THEN all ELSE none

\* a checkout has succeeded (a loan is active) and another call would fail
C3_Witness ==
    /\ \E l \in LoanIds : IsActive(l)
    /\ \E u \in UserIds, i \in ItemIds :
          u \in DOMAIN users /\ i \in DOMAIN items
          /\ ~check_out_item(St, u, i).ok
    /\ \E u \in UserIds, i \in ItemIds : check_out_item(St, u, i).ok

\* C4: check_out_item by a registered user for whom can_borrow_item holds,
\* on a registered available item, succeeds and appends exactly one loan:
\* the call's user id and item id, date_borrowed = now, date_due = now plus
\* 21 days for a Book, 7 for a Magazine, 14 for a DVD, not returned, no
\* renewals, fine 0; the item becomes unavailable.
C4_CheckOutCreatesLoan ==
    \A u \in DOMAIN users, i \in DOMAIN items :
        (items[i].is_available /\ can_borrow_item(users[u], items[i], now))
            => LET r == check_out_item(St, u, i)
                   l == Len(loans) + 1
                   period == CASE items[i].item_type = "Book" -> 21
                               [] items[i].item_type = "Magazine" -> 7
                               [] items[i].item_type = "DVD" -> 14
               IN  /\ r.ok
                   /\ Len(r.S.loans) = l
                   /\ SubSeq(r.S.loans, 1, l - 1) = loans
                   /\ r.S.loans[l].user_id = u
                   /\ r.S.loans[l].item_id = i
                   /\ r.S.loans[l].date_borrowed = now
                   /\ r.S.loans[l].date_due = now + period * TicksPerDay
                   /\ r.S.loans[l].date_returned = NoDate
                   /\ ~r.S.loans[l].is_returned
                   /\ r.S.loans[l].renewal_count = 0
                   /\ r.S.loans[l].fine_amount = 0
                   /\ ~r.S.items[i].is_available

\* a loan was made after the library was stocked, at a time other than 0,
\* and a DVD on the shelf can be borrowed by a member and by a staff user
C4_Witness ==
    /\ now > 0
    /\ \E l \in LoanIds :
          l > StockLoans /\ IsActive(l) /\ loans[l].date_borrowed = now
    /\ \E i \in DOMAIN items, u \in DOMAIN users, v \in DOMAIN users :
          /\ items[i].item_type = "DVD" /\ items[i].is_available
          /\ users[u].role = "Member" /\ users[v].role = "Staff"
          /\ check_out_item(St, u, i).ok /\ check_out_item(St, v, i).ok

CannotBorrowMsg ==
    "User cannot borrow this item (check limits, fines, or membership status)"

\* C5: check_out_item on a registered item that is unavailable fails for
\* every user id (the borrower, another registered user, an unknown id) and
\* returns the state it was given, so that repeating the call repeats the
\* failure; for a registered user the refusal is the eligibility check's.
C5_UnavailableCheckOutFails ==
    \A u \in UserIds, i \in DOMAIN items :
        ~items[i].is_available =>
            LET r == check_out_item(St, u, i)
            IN  /\ ~r.ok
                /\ r.S = St
                /\ check_out_item(r.S, u, i) = r
                /\ r.msg = IF u \in DOMAIN users THEN CannotBorrowMsg
                           ELSE "User not found"

\* an item is on loan to one registered user while another is registered
C5_Witness ==
    \E i \in DOMAIN items, u \in DOMAIN users, v \in DOMAIN users :
        /\ ~items[i].is_available
        /\ u # v
        /\ Contains(users[u].borrowed_items, i)
        /\ ~check_out_item(St, u, i).ok /\ ~check_out_item(St, v, i).ok

\* the borrowing limit of a role: Member 5, Manager 20, Librarian 15
RoleLimit(user) ==
    IF user.role = "Member" THEN 5
    ELSE IF user.staff_role = "Manager" THEN 20 ELSE 15

\* C6: every registered user has at most as many non-returned loans as the
\* borrowing limit of the role (Member 5, Manager 20, Librarian 15), and
\* check_out_item by a user whose borrowed count equals the limit fails and
\* returns the state it was given, whatever the item id.
C6_BorrowingLimit ==
    /\ \A u \in DOMAIN users :
          Cardinality(ActiveLoansOfUser(u)) <= RoleLimit(users[u])
    /\ \A u \in DOMAIN users, i \in LimitItemIds :
          Len(users[u].borrowed_items) = RoleLimit(users[u])
              => LET r == check_out_item(St, u, i)
                 IN  ~r.ok /\ r.S = St

\* the librarian holds 15 items and is refused an item that is on the shelf
C6_Witness ==
    \E u \in DOMAIN users, i \in DOMAIN items :
        /\ users[u].role = "Staff" /\ users[u].staff_role = "Librarian"
        /\ Cardinality(ActiveLoansOfUser(u)) = 15
        /\ Len(users[u].borrowed_items) = 15
        /\ items[i].is_available
        /\ check_out_item(St, u, i).msg = CannotBorrowMsg

\* C7: a member owing more than 10.00 cannot check out anything: the
\* eligibility check refuses every item and check_out_item fails without
\* changing the state; a member owing 10.00 or less, below the borrowing
\* limit and with a running membership, checks out any available item.
C7_FinesBlockBorrowing ==
    \A u \in DOMAIN users, i \in ItemIds :
        users[u].role = "Member" =>
            LET r == check_out_item(St, u, i)
            IN  /\ users[u].fines_owed > 1000 =>
                    /\ i \in DOMAIN items
                          => ~can_borrow_item(users[u], items[i], now)
                    /\ ~r.ok
                    /\ r.S = St
                /\ ( /\ users[u].fines_owed <= 1000
                     /\ i \in DOMAIN items
                     /\ items[i].is_available
                     /\ Len(users[u].borrowed_items) < 5
                     /\ now <= users[u].membership_expiry )
                    => can_borrow_item(users[u], items[i], now) /\ r.ok

\* a member owes more than 10.00 while an item is on the shelf
C7_Witness ==
    \E u \in DOMAIN users, i \in DOMAIN items :
        /\ users[u].role = "Member"
        /\ users[u].fines_owed > 1000
        /\ items[i].is_available
        /\ check_out_item(St, u, i).msg = CannotBorrowMsg

\* C8: check_out_item with an unknown user id fails with "User not found",
\* also when the item id is unknown too; with a known user and an unknown
\* item id it fails with "Item not found"; neither changes the state.
C8_CheckOutNotFound ==
    \A u \in UserIds, i \in ItemIds :
        LET r == check_out_item(St, u, i)
        IN  /\ u \notin DOMAIN users
                => ~r.ok /\ r.msg = "User not found" /\ r.S = St
            /\ (u \in DOMAIN users /\ i \notin DOMAIN items)
                => ~r.ok /\ r.msg = "Item not found" /\ r.S = St

\* loans exist, and there are an unknown user id and an unknown item id
C8_Witness ==
    /\ Len(loans) > 0
    /\ \E u \in UserIds, i \in ItemIds :
          /\ u \notin DOMAIN users /\ i \notin DOMAIN items
          /\ check_out_item(St, u, i).msg = "User not found"
    /\ \E u \in UserIds, i \in ItemIds :
          /\ u \in DOMAIN users /\ i \notin DOMAIN items
          /\ check_out_item(St, u, i).msg = "Item not found"

\* the loan history of a user object, empty for an object that keeps none
LoanHistoryOf(user) ==
    IF HasAttr(user, "loan_history") THEN user.loan_history ELSE <<>>

\* what a successful check_in_item(u, i) does to the loan l it returns,
\* to the item and to the user's lists
CheckInEffects(r, u, i, l) ==
    /\ r.S.loans[l].is_returned
    /\ r.S.loans[l].date_returned = now
    /\ r.fine = r.S.loans[l].fine_amount
    /\ r.S.items[i].is_available
    /\ r.S.active_loans[u] = ListRemove(active_loans[u], l)
    /\ ~Contains(r.S.active_loans[u], l)
    /\ ~Contains(r.S.users[u].borrowed_items, i)
    /\ (r.fine > 0 /\ users[u].role = "Member")
          => r.S.users[u].fines_owed = users[u].fines_owed + r.fine

\* the non-returned loan of item i in user u's active-loan list
TheActiveLoan(u, i) ==
    CHOOSE l \in LoanIds :
        /\ Contains(DictGet(active_loans, u, <<>>), l)
        /\ loans[l].item_id = i /\ IsActive(l)

\* C9: a successful check_in_item(u, i), for a Member and for a Staff user
\* alike, marks the loan returned at now, makes the item available, removes
\* the loan id from the user's active loans and the item id from the
\* borrowed items, appends the loan id to the loan history of the user and
\* adds a positive fine to a Member's fines_owed.
C9_Original ==
    \A u \in UserIds, i \in ItemIds :
        LET r == check_in_item(St, u, i)
            l == TheActiveLoan(u, i)
        IN  r.ok => /\ CheckInEffects(r, u, i, l)
                    /\ Contains(LoanHistoryOf(r.S.users[u]), l)

\* C10: check_in_item fails with fine 0 and returns the state it was given
\* whenever the user's active-loan list holds no non-returned loan of the
\* item: the item was never borrowed, is on loan to another user, the user
\* id is unknown, or the loan was checked in before.
C10_CheckInWithoutLoanFails ==
    \A u \in UserIds, i \in ItemIds :
        (~\E l \in LoanIds :
              /\ Contains(DictGet(active_loans, u, <<>>), l)
              /\ loans[l].item_id = i /\ IsActive(l))
            => LET r == check_in_item(St, u, i)
               IN  ~r.ok /\ r.fine = 0 /\ r.S = St

\* one loan was checked in already and another user holds an item
C10_Witness ==
    \E l1 \in LoanIds, l2 \in LoanIds :
        /\ ~IsActive(l1) /\ IsActive(l2)
        /\ loans[l1].user_id # loans[l2].user_id
        /\ ~check_in_item(St, loans[l1].user_id, loans[l1].item_id).ok
        /\ ~check_in_item(St, loans[l1].user_id, loans[l2].item_id).ok

\* C11: Loan.return_item on a loan that is already returned raises
\* ValueError and leaves is_returned, date_returned and the stored fine as
\* the first return_item call set them, whatever return date is passed.
C11_DoubleReturnRaises ==
    \A l \in LoanIds, d1 \in ReturnDates, d2 \in ReturnDates :
        LET first == IF loans[l].is_returned
                     THEN [raised |-> FALSE, value |-> loans[l].fine_amount,
                           loan |-> loans[l]]
                     ELSE LoanReturnItemCall(loans[l], d1, now,
                                             daily_fine_rate)
            second == LoanReturnItemCall(first.loan, d2, now, daily_fine_rate)
        IN  /\ ~first.raised
            /\ first.loan.is_returned
            /\ second.raised
            /\ second.loan.is_returned
            /\ second.loan.date_returned = first.loan.date_returned
            /\ second.loan.fine_amount = first.loan.fine_amount

\* a loan was returned late, with a fine, and the clock and the fine rate
\* have moved on since
C11_Witness ==
    \E l \in LoanIds :
        /\ loans[l].is_returned
        /\ loans[l].fine_amount > 0
        /\ now > loans[l].date_returned
        /\ loans[l].fine_amount
             # WholeDays(now - loans[l].date_due) * daily_fine_rate
        /\ LoanReturnItemCall(loans[l], NoDate, now, daily_fine_rate).raised

\* C12: returned is terminal.  In every step (a return_item, renew_loan or
\* fine_amount read on the loan, a check-in or renewal through the
\* directory, a tick of the clock, a change of the fine rate) a loan that is
\* returned stays returned and keeps its date_returned, date_due,
\* renewal_count and fine, stored and as read through fine_amount.
C12_ReturnedIsTerminal ==
    [][\A l \in LoanIds :
          loans[l].is_returned =>
              /\ l \in 1..Len(loans')
              /\ loans'[l].is_returned
              /\ loans'[l].date_returned = loans[l].date_returned
              /\ loans'[l].date_due = loans[l].date_due
              /\ loans'[l].renewal_count = loans[l].renewal_count
              /\ loans'[l].fine_amount = loans[l].fine_amount
              /\ ReadFineAmount(loans'[l], now', daily_fine_rate').value
                   = loans[l].fine_amount]_vars

\* a renewed loan was returned late with a fine; since then the clock has
\* advanced and the fine rate is no longer the one the fine was computed at
C12_Witness ==
    \E l \in LoanIds :
        /\ loans[l].is_returned
        /\ loans[l].renewal_count > 0
        /\ loans[l].fine_amount > 0
        /\ loans[l].date_returned > loans[l].date_due
        /\ now > loans[l].date_returned
        /\ loans[l].fine_amount
             # WholeDays(loans[l].date_returned - loans[l].date_due)
                 * daily_fine_rate

\* the numbers of days a renewal is asked for: by the caller of
\* Loan.renew_loan, and the default the directory's renew_loan leaves it at
AskedRenewalDays == RenewalDays \cup {21}

\* C13: renewal_count is between 0 and 2 for every loan in every state; on
\* a fresh loan that is not overdue the first renewal succeeds with
\* renewal_count 1 and the second with renewal_count 2; a renewal of a loan
\* with renewal_count 2 is denied, overdue or not, directly and through the
\* directory.
C13_AtMostTwoRenewals ==
    \A l \in LoanIds :
        /\ loans[l].renewal_count \in 0..2
        /\ \A d1 \in AskedRenewalDays, d2 \in AskedRenewalDays :
              ( /\ loans[l].renewal_count = 0
                /\ ~loans[l].is_returned
                /\ now <= loans[l].date_due )
                  => LET first == LoanRenewLoan(loans[l], d1, now)
                         second == LoanRenewLoan(first[2], d2, now)
                         third == LoanRenewLoan(second[2], d1, now)
                     IN  /\ first[1] /\ first[2].renewal_count = 1
                         /\ second[1] /\ second[2].renewal_count = 2
                         /\ ~third[1] /\ third[2] = second[2]
        /\ loans[l].renewal_count = 2
              => /\ \A d \in AskedRenewalDays :
                       LoanRenewLoan(loans[l], d, now) = <<FALSE, loans[l]>>
                 /\ LET r == renew_loan(St, loans[l].user_id, loans[l].item_id)
                    IN  ~r.ok /\ r.S = St

\* a loan renewed twice is overdue and not returned
C13_Witness ==
    \E l \in LoanIds :
        /\ loans[l].renewal_count = 2
        /\ ~loans[l].is_returned
        /\ now > loans[l].date_due
        /\ ~renew_loan(St, loans[l].user_id, loans[l].item_id).ok

\* C14: Loan.renew_loan succeeds exactly when can_renew() holds at that
\* moment, which is when the loan is not returned, renewal_count < 2 and
\* now is not after date_due; a success adds additional_days to date_due
\* and 1 to renewal_count and changes nothing else; a denial changes
\* nothing; an overdue loan is never renewed.
C14_RenewIffCanRenew ==
    \A l \in LoanIds, d \in AskedRenewalDays :
        LET loan == loans[l]
            r == LoanRenewLoan(loan, d, now)
        IN  /\ r[1] <=> can_renew(loan, now)
            /\ can_renew(loan, now)
                 <=> ( /\ ~loan.is_returned
                       /\ loan.renewal_count < 2
                       /\ ~(now > loan.date_due) )
            /\ r[1] => r[2] = [loan EXCEPT
                                 !.date_due = loan.date_due + d * TicksPerDay,
                                 !.renewal_count = loan.renewal_count + 1]
            /\ ~r[1] => r[2] = loan
            /\ (~loan.is_returned /\ now > loan.date_due) => ~r[1]

\* a loan renewed once is overdue and not returned: only the due date
\* stands against another renewal
C14_Witness ==
    \E l \in LoanIds :
        /\ loans[l].renewal_count = 1
        /\ ~loans[l].is_returned
        /\ now > loans[l].date_due
        /\ ~LoanRenewLoan(loans[l], 21, now)[1]

\* C15: a renewal issued by LibrarySystem.renew_loan extends date_due by
\* the loan period of the borrowed item: 21 days for a Book, 7 for a
\* Magazine, 14 for a DVD.
C15_RenewalExtendsByLoanPeriod ==
    \A u \in UserIds, i \in ItemIds :
        LET r == renew_loan(St, u, i)
            l == TheActiveLoan(u, i)
            period == CASE items[i].item_type = "Book" -> 21
                        [] items[i].item_type = "Magazine" -> 7
                        [] items[i].item_type = "DVD" -> 14
        IN  r.ok => r.S.loans[l].date_due
                      = loans[l].date_due + period * TicksPerDay

\* C16: Loan.return_item(return_time) on a loan that is not returned
\* returns and stores the fine n * daily fine rate, n being the number of
\* whole days from date_due to return_time, when return_time > date_due,
\* and 0 otherwise; at the rate 0.50 a return exactly 5 days after date_due
\* gives 2.50, and a return less than a day late gives 0.
C16_ReturnFine ==
    \A l \in LoanIds, d \in ReturnDates :
        ~loans[l].is_returned =>
            LET c == LoanReturnItemCall(loans[l], d, now, daily_fine_rate)
                return_time == IF d = NoDate THEN now ELSE d
                late == return_time - loans[l].date_due
            IN  /\ ~c.raised
                /\ c.loan.date_returned = return_time
                /\ c.loan.fine_amount = c.value
                /\ late > 0 =>
                     \E n \in 0..late :
                         /\ n * TicksPerDay <= late
                         /\ late < (n + 1) * TicksPerDay
                         /\ c.value = n * daily_fine_rate
                /\ late <= 0 => c.value = 0
                /\ (daily_fine_rate = 50 /\ late = 5 * TicksPerDay)
                     => c.value = 250
                /\ (late > 0 /\ late < TicksPerDay) => c.value = 0

\* a loan was returned exactly 5 days after its due date at the rate 0.50
\* and carries the fine 2.50
C16_Witness ==
    \E l \in LoanIds :
        /\ loans[l].is_returned
        /\ loans[l].date_returned = loans[l].date_due + 5 * TicksPerDay
        /\ loans[l].fine_amount = 250
        /\ now >= loans[l].date_returned

\* the fine of loan l as the fine_amount property reports it in the state
ReportedFine(l) == ReadFineAmount(loans[l], now, daily_fine_rate).value

\* C17: in every step that leaves the fine rate as it is (a tick of the
\* clock, an operation of the directory, a method of the loan) the fine
\* that fine_amount reports for a loan not returned before and after the
\* step does not decrease; the fine reported right after the return is the
\* value return_item computed, and in every later step, changes of the fine
\* rate included, the reported fine of a returned loan stays what it was.
C17_FineMonotoneThenFrozen ==
    [][\A l \in LoanIds :
          /\ l \in 1..Len(loans')
          /\ ( /\ ~loans[l].is_returned /\ ~loans'[l].is_returned
               /\ daily_fine_rate' = daily_fine_rate )
                => ReportedFine(l)' >= ReportedFine(l)
          /\ (~loans[l].is_returned /\ loans'[l].is_returned)
                => \E d \in ReturnDates :
                       ReportedFine(l)'
                         = LoanReturnItemCall(loans[l], d, now,
                                              daily_fine_rate).value
          /\ loans[l].is_returned
                => /\ loans'[l].is_returned
                   /\ ReportedFine(l)' = ReportedFine(l)]_vars

\* the fine of an overdue loan has grown since it was last read
C17_Witness ==
    \E l \in LoanIds :
        /\ ~loans[l].is_returned
        /\ loans[l].fine_amount > 0
        /\ ReportedFine(l) > loans[l].fine_amount
        /\ loans[l].renewal_count > 0

\* C18: is_overdue() holds iff the loan is not returned and now > date_due
\* (it does not hold at now = date_due); days_overdue() is the number of
\* whole days of now - date_due, rounded down, when the loan is overdue and
\* 0 otherwise; the current fine of a loan that is not returned is
\* days_overdue() times the daily fine rate, so that a loan overdue by less
\* than a day is overdue with fine 0.
C18_OverdueAndCurrentFine ==
    \A l \in LoanIds :
        LET loan == loans[l]
            late == now - loan.date_due
        IN  /\ is_overdue(loan, now) <=> (~loan.is_returned /\ now > loan.date_due)
            /\ now = loan.date_due => ~is_overdue(loan, now)
            /\ is_overdue(loan, now) =>
                 \E n \in 0..late :
                     /\ n * TicksPerDay <= late
                     /\ late < (n + 1) * TicksPerDay
                     /\ days_overdue(loan, now) = n
            /\ ~is_overdue(loan, now) => days_overdue(loan, now) = 0
            /\ ~loan.is_returned
                 => ReportedFine(l) = days_overdue(loan, now) * daily_fine_rate
            /\ (~loan.is_returned /\ late > 0 /\ late < TicksPerDay)
                 => is_overdue(loan, now) /\ ReportedFine(l) = 0

\* a renewed loan is overdue by less than a day and not returned, after a
\* fine rate other than the default was set
C18_Witness ==
    \E l \in LoanIds :
        /\ ~loans[l].is_returned
        /\ loans[l].renewal_count > 0
        /\ now > loans[l].date_due
        /\ now - loans[l].date_due < TicksPerDay
        /\ daily_fine_rate = 25
        /\ is_overdue(loans[l], now)

\* C19: remove_item on a registered item that a non-returned loan
\* references fails and leaves the registry as it is; once check_in_item has
\* returned that loan, remove_item on the item succeeds, and the item id is
\* no longer in the registry (users and loans are left alone).
C19_RemoveItem ==
    \A i \in ItemIds :
        /\ (i \in DOMAIN items /\ Cardinality(ActiveLoansOfItem(i)) > 0)
              => /\ ~remove_item(St, i).ok
                 /\ remove_item(St, i).S = St
                 /\ \A u \in UserIds :
                       LET c == check_in_item(St, u, i)
                           r == remove_item(c.S, i)
                       IN  c.ok => /\ r.ok
                                   /\ i \notin DOMAIN r.S.items
                                   /\ r.S = [c.S EXCEPT
                                               !.items = DictDel(c.S.items, i)]

\* an item that was lent and checked in has been removed from the registry,
\* while another item is on loan and cannot be removed
C19_Witness ==
    /\ \E l \in LoanIds :
          ~IsActive(l) /\ loans[l].item_id \notin DOMAIN items
    /\ \E i \in DOMAIN items :
          Cardinality(ActiveLoansOfItem(i)) > 0 /\ ~remove_item(St, i).ok

\* C20: remove_user fails exactly when the user id is unknown or the user
\* holds a non-returned loan, and then returns the state it was given (the
\* user stays registered, the active-loan index is unchanged); when it
\* succeeds the user entry and the user's active-loan index entry are both
\* removed and nothing else changes.
C20_RemoveUser ==
    \A u \in UserIds :
        LET r == remove_user(St, u)
        IN  /\ ~r.ok <=> ( \/ u \notin DOMAIN users
                           \/ Cardinality(ActiveLoansOfUser(u)) > 0 )
            /\ ~r.ok => r.S = St
            /\ r.ok => /\ u \notin DOMAIN r.S.users
                       /\ u \notin DOMAIN r.S.active_loans
                       /\ r.S = [St EXCEPT
                                   !.users = DictDel(users, u),
                                   !.active_loans = DictDel(active_loans, u)]

\* a user who had returned a loan has been removed, while a registered user
\* holds a non-returned loan and cannot be removed
C20_Witness ==
    /\ \E l \in LoanIds :
          /\ ~IsActive(l)
          /\ loans[l].user_id \notin DOMAIN users
          /\ loans[l].user_id \notin DOMAIN active_loans
    /\ \E v \in DOMAIN users :
          Cardinality(ActiveLoansOfUser(v)) > 0 /\ ~remove_user(St, v).ok

\* ---------------------------------------------------------------------------
\* the kinds of users and the types of items a caller can construct
AllUserKinds == {"Member", "Librarian", "Manager"}

AllItemTypes == {"Book", "Magazine", "DVD"}

\* C21: register_user and add_item return False when the id is already in
\* the registry and change nothing: the registry entry, and for a user the
\* active-loan index entry, stay those of the original object, whatever
\* object is offered.  Otherwise they return True and insert the new
\* entry (a user with an empty active-loan list), changing nothing else.
C21_DuplicateRegistration ==
    /\ \A u \in UserIds : \A k \in AllUserKinds :
          LET r == register_user(St, u, k) IN
          IF u \in DOMAIN users
          THEN ~r.ok /\ r.S = St
          ELSE /\ r.ok
               /\ r.S.users = DictPut(users, u, NewUser(u, k, now))
               /\ r.S.active_loans = DictPut(active_loans, u, <<>>)
               /\ r.S.items = items /\ r.S.loans = loans
               /\ r.S.now = now /\ r.S.daily_fine_rate = daily_fine_rate
    /\ \A i \in ItemIds : \A ty \in AllItemTypes :
          LET r == add_item(St, i, ty) IN
          IF i \in DOMAIN items
          THEN ~r.ok /\ r.S = St
          ELSE /\ r.ok
               /\ r.S.items = DictPut(items, i, NewItem(i, ty))
               /\ r.S = [St EXCEPT !.items = r.S.items]

\* a user holding a loan and an item on loan, both refused a second
\* registration under their ids
C21_Witness ==
    \E u \in DOMAIN users, i \in DOMAIN items :
        /\ Len(active_loans[u]) > 0
        /\ ~items[i].is_available
        /\ \E k \in AllUserKinds :
              /\ NewUser(u, k, now) # users[u]
              /\ ~register_user(St, u, k).ok
        /\ \E ty \in AllItemTypes :
              /\ NewItem(i, ty) # items[i]
              /\ ~add_item(St, i, ty).ok

\* C22: after any sequence of operations of the directory (check-out,
\* check-in and then remove_item or remove_user of the entities involved
\* included) validate_system_integrity() returns no error.
C22_IntegrityValidates ==
    validate_system_integrity(St) = {}

\* the members of the user registry
Members == {u \in DOMAIN users : HasAttr(users[u], "fines_owed")}

\* the amounts a caller passes to add_fine and pay_fine
AskedAmounts == AddFineAmounts \cup PayFineAmounts

\* C23: a Member's fines_owed is never negative, whatever amounts (negative
\* and zero included) add_fine and pay_fine are called with and whatever
\* fines the check-ins add; add_fine with an amount >= 0 increases
\* fines_owed by exactly that amount.
C23_FinesNonNegative ==
    \A u \in Members :
        /\ users[u].fines_owed >= 0
        /\ \A a \in AskedAmounts :
              /\ add_fine(users[u], a).fines_owed >= 0
              /\ pay_fine(users[u], a).user.fines_owed >= 0
              /\ a >= 0 => add_fine(users[u], a).fines_owed
                              = users[u].fines_owed + a
        /\ \A i \in MemberItemIds :
              LET c == check_in_item(St, u, i) IN
              c.ok => c.S.users[u].fines_owed >= 0

\* a balance that only a late check-in, fines added and fines paid together
\* produce (check-in fines are multiples of 50, fines added multiples of 75)
C23_Witness ==
    \E u \in Members :
        /\ users[u].fines_owed = 25
        /\ \E l \in Elems(users[u].loan_history) : loans[l].fine_amount > 0

\* C24: pay_fine(amount) reduces fines_owed by amount and clamps the result
\* at 0: paying more than the balance leaves fines_owed = 0.
C24_PayFineClamps ==
    \A u \in Members : \A a \in PayFineAmounts :
        a > 0 =>
            pay_fine(users[u], a).user.fines_owed
                = IF a > users[u].fines_owed THEN 0
                  ELSE users[u].fines_owed - a

\* C24 (amended): pay_fine(amount) returns True and reduces fines_owed by
\* amount when 0 < amount <= fines_owed; otherwise (amount <= 0, or amount
\* above the balance) it returns False and leaves fines_owed as it was.  The
\* balance is never clamped and never negative.
C24_PayFineRefusesOverpayment ==
    \A u \in Members : \A a \in PayFineAmounts :
        LET p == pay_fine(users[u], a) IN
        IF 0 < a /\ a <= users[u].fines_owed
        THEN p.ok /\ p.user = [users[u] EXCEPT !.fines_owed = @ - a]
        ELSE ~p.ok /\ p.user = users[u]

\* a member who owes something, with a payment above the balance refused and
\* a payment within the balance accepted
C24_Witness ==
    \E u \in Members :
        /\ users[u].fines_owed > 0
        /\ \E a \in PayFineAmounts :
              a > users[u].fines_owed /\ ~pay_fine(users[u], a).ok
        /\ \E a \in PayFineAmounts :
              /\ pay_fine(users[u], a).ok
              /\ pay_fine(users[u], a).user.fines_owed > 0

\* the membership test of can_borrow_item agrees with is_membership_active:
\* a member within the limit and the fine threshold can borrow an available
\* item iff the membership is active
MembershipTestAgrees(u) ==
    \A i \in DOMAIN items :
        (/\ items[i].is_available
         /\ Len(users[u].borrowed_items) < get_borrowing_limit(users[u])
         /\ users[u].fines_owed <= FineThreshold)
        => (can_borrow_item(users[u], items[i], now)
              <=> is_membership_active(users[u], now))

\* C25: is_membership_active() is true iff now < membership_expiry, and the
\* membership test of can_borrow_item agrees with it at every time, the
\* expiry instant included: a member within the limit and the fine threshold
\* can borrow an available item iff the membership is active.
C25_ActiveBeforeExpiry ==
    \A u \in Members :
        /\ is_membership_active(users[u], now)
              <=> now < users[u].membership_expiry
        /\ MembershipTestAgrees(u)

\* C25 (amended): is_membership_active() is true iff now <= membership_expiry
\* (the expiry instant is still active), the membership test of
\* can_borrow_item agrees with it at every time, and check_out_item succeeds
\* for a member only while the membership is active.
C25_ActiveThroughExpiry ==
    \A u \in Members :
        /\ is_membership_active(users[u], now)
              <=> now <= users[u].membership_expiry
        /\ MembershipTestAgrees(u)
        /\ \A i \in MemberItemIds :
              check_out_item(St, u, i).ok
                  => is_membership_active(users[u], now)

\* at the expiry instant the member still checks an item out
C25_Witness ==
    \E u \in Members, i \in MemberItemIds :
        /\ now = users[u].membership_expiry
        /\ is_membership_active(users[u], now)
        /\ check_out_item(St, u, i).ok

\* ids a caller may pass: the registered ones and one that is unknown
CallerUserIds == UserIds \cup {"u9"}

CallerItemIds == ItemIds \cup {"i9"}

\* C26: in the states reached through the directory's operations,
\* check_out_item, check_in_item and renew_loan never end in an exception,
\* whatever ids they are called with; in particular the loan check_in_item
\* picks is never a returned one, so return_item's ValueError is not raised.
C26_NeverRaises ==
    \A u \in CallerUserIds, i \in CallerItemIds :
        /\ ~check_out_item_raises(St, u, i)
        /\ ~check_in_item_raises(St, u, i)
        /\ ~renew_loan_raises(St, u, i)
        /\ FindActiveLoan(St, u, i) # NoLoan
              => ~loans[FindActiveLoan(St, u, i)].is_returned

\* the user has returned the item before and another user holds it now: the
\* first user's check-in is refused and the holder's succeeds
C26_Witness ==
    \E u \in DOMAIN users, v \in DOMAIN users, i \in DOMAIN items :
        /\ u # v
        /\ \E l \in LoanIds : /\ loans[l].user_id = u
                              /\ loans[l].item_id = i
                              /\ loans[l].is_returned
        /\ ~check_in_item(St, u, i).ok
        /\ check_in_item(St, u, i).msg
              = "No active loan found for this item and user"
        /\ check_in_item(St, v, i).ok

\* C27: renew_loan(user_id, item_id) fails and changes no loan when the user
\* has no non-returned loan of the item; otherwise it succeeds exactly when
\* that loan can_renew(), and it changes nothing but the date_due and the
\* renewal_count of that loan (a refused renewal changes nothing at all).
C27_RenewLoanFrame ==
    \A u \in CallerUserIds, i \in CallerItemIds :
        LET r == renew_loan(St, u, i)
            mine == {l \in LoanIds : /\ loans[l].user_id = u
                                     /\ loans[l].item_id = i
                                     /\ IsActive(l)}
        IN  IF mine = {}
            THEN ~r.ok /\ r.S = St
            ELSE \E l \in mine :
                    /\ r.ok <=> can_renew(loans[l], now)
                    /\ r.S = [St EXCEPT !.loans[l] =
                                 [@ EXCEPT !.date_due = r.S.loans[l].date_due,
                                           !.renewal_count =
                                               r.S.loans[l].renewal_count]]
                    /\ ~r.ok => r.S = St
                    /\ r.ok => /\ r.S.loans[l].date_due > loans[l].date_due
                               /\ r.S.loans[l].renewal_count
                                     = loans[l].renewal_count + 1

\* a renewal that succeeds while the same user holds a second loan, which is
\* not touched, and a renewal that is refused for a loan that cannot renew
C27_Witness ==
    \E u \in DOMAIN users, i \in DOMAIN items, j \in DOMAIN items :
        /\ i # j
        /\ FindActiveLoan(St, u, i) # NoLoan
        /\ FindActiveLoan(St, u, j) # NoLoan
        /\ renew_loan(St, u, i).ok
        /\ ~renew_loan(St, u, j).ok

\* C28: get_overdue_loans() returns exactly the loans of the registry that
\* are not returned and whose date_due is strictly before now, each once; a
\* loan is no longer listed once it is checked in, and no renewal (through
\* the directory, or Loan.renew_loan with a positive number of days) makes a
\* loan enter the list.
C28_OverdueLoans ==
    LET overdue == get_overdue_loans(St) IN
    /\ Elems(overdue) = {l \in LoanIds : IsActive(l) /\ loans[l].date_due < now}
    /\ \A j, k \in 1..Len(overdue) : j < k => overdue[j] < overdue[k]
    /\ \A u \in DeskUserIds, i \in DeskItemIds :
          /\ LET c == check_in_item(St, u, i) IN
             c.ok => FindActiveLoan(St, u, i) \notin Elems(get_overdue_loans(c.S))
          /\ Elems(get_overdue_loans(renew_loan(St, u, i).S)) \subseteq Elems(overdue)
    /\ \A l \in LoanIds : \A d \in AskedRenewalDays :
          Elems(get_overdue_loans(
                  [St EXCEPT !.loans[l] = LoanRenewLoan(@, d, now)[2]]))
              \subseteq Elems(overdue)

\* an overdue loan is listed, its renewal is refused, and its check-in takes
\* it off the list
C28_Witness ==
    \E u \in DeskUserIds, i \in DeskItemIds :
        /\ FindActiveLoan(St, u, i) # NoLoan
        /\ FindActiveLoan(St, u, i) \in Elems(get_overdue_loans(St))
        /\ ~renew_loan(St, u, i).ok
        /\ check_in_item(St, u, i).ok
        /\ get_overdue_loans(check_in_item(St, u, i).S) = <<>>

\* the staff users of the user registry
StaffUsers == {u \in DOMAIN users : HasAttr(users[u], "staff_role")}

\* the fines balance of a user object, NoDate if the object has none
FinesOf(user) == IF HasAttr(user, "fines_owed") THEN user.fines_owed ELSE NoDate

\* C29: when a Staff user checks in a loan that is overdue by at least one
\* whole day, check_in_item succeeds and reports the positive fine (whole
\* days overdue times the daily rate), but the fines balance of no user
\* changes (the Staff object has none) and the staff user can still borrow
\* every available item within the borrowing limit; when a Member does the
\* same, the fine is added to the member's balance.
C29_StaffFineNotCharged ==
    \A u \in DOMAIN users, i \in DOMAIN items :
        LET l == FindActiveLoan(St, u, i)
            c == check_in_item(St, u, i)
        IN  (l # NoLoan /\ days_overdue(loans[l], now) >= 1
                /\ daily_fine_rate > 0)
            => /\ c.ok
               /\ c.fine = days_overdue(loans[l], now) * daily_fine_rate
               /\ c.fine > 0
               /\ IF u \in StaffUsers
                  THEN /\ \A v \in DOMAIN users :
                             FinesOf(c.S.users[v]) = FinesOf(users[v])
                       /\ ~HasAttr(c.S.users[u], "fines_owed")
                       /\ \A j \in DOMAIN c.S.items :
                             c.S.items[j].is_available
                                => check_out_item(c.S, u, j).ok
                  ELSE /\ c.S.users[u].fines_owed
                             = users[u].fines_owed + c.fine
                       /\ \A v \in DOMAIN users \ {u} :
                             FinesOf(c.S.users[v]) = FinesOf(users[v])

\* a staff user returns an item late while a member is registered, and
\* borrows it again at once
C29_Witness ==
    \E u \in StaffUsers, i \in DOMAIN items :
        /\ Members # {}
        /\ FindActiveLoan(St, u, i) # NoLoan
        /\ days_overdue(loans[FindActiveLoan(St, u, i)], now) >= 1
        /\ check_in_item(St, u, i).fine > 0
        /\ check_out_item(check_in_item(St, u, i).S, u, i).ok

\* the number of loans of the registry, returned or not, that reference an
\* item id, and the position of the first of them
LoanCountOf(item_id) == Cardinality({l \in LoanIds : loans[l].item_id = item_id})

FirstLoanOf(item_id) ==
    CHOOSE l \in LoanIds :
        /\ loans[l].item_id = item_id
        /\ \A k \in 1..(l - 1) : loans[k].item_id # item_id

\* one registered item with loans ranks before another: more loans, or as
\* many and an earlier first loan
RanksBefore(i, j) ==
    \/ LoanCountOf(i) > LoanCountOf(j)
    \/ LoanCountOf(i) = LoanCountOf(j) /\ FirstLoanOf(i) < FirstLoanOf(j)

\* C30: get_popular_items(limit) returns at most limit pairs (item, count),
\* by non-increasing count and, among equal counts, in the order of the
\* items' first loans; each count is the number of loans of the registry,
\* returned or not, that reference the item's id; every registered item with
\* at least one loan is a candidate, and the pairs returned are the first
\* ones of that ranking.
C30_PopularItems ==
    LET candidates == {i \in DOMAIN items : LoanCountOf(i) > 0} IN
    \A limit \in PopularLimits :
        LET top == get_popular_items(St, limit)
            ids == {top[k].item.item_id : k \in 1..Len(top)}
        IN  /\ Len(top) = IF limit < Cardinality(candidates)
                          THEN limit ELSE Cardinality(candidates)
            /\ ids \subseteq candidates
            /\ \A k \in 1..Len(top) :
                  /\ top[k].item = items[top[k].item.item_id]
                  /\ top[k].count = LoanCountOf(top[k].item.item_id)
            /\ \A j, k \in 1..Len(top) :
                  j < k => RanksBefore(top[j].item.item_id, top[k].item.item_id)
            /\ \A i \in candidates \ ids : \A k \in 1..Len(top) :
                  RanksBefore(top[k].item.item_id, i)

\* the item lent first has fewer loans than one lent later and a third item
\* ties with it; with limit 2 the third item is cut off
C30_Witness ==
    \E i, j, k \in DOMAIN items :
        /\ LoanCountOf(i) = 1 /\ LoanCountOf(j) = 2 /\ LoanCountOf(k) = 1
        /\ FirstLoanOf(i) < FirstLoanOf(j)
        /\ FirstLoanOf(j) < FirstLoanOf(k)
        /\ get_popular_items(St, 2)
              = <<[item |-> items[j], count |-> 2],
                  [item |-> items[i], count |-> 1]>>
        /\ Len(get_popular_items(St, 10)) = 3

\* C31: the permission set of a Staff user equals, in every state, the
\* default permission set of its current role, whatever staff_role
\* assignments, add_permission and remove_permission calls were made.
C31_PermissionsAreRoleDefaults ==
    \A u \in StaffUsers :
        Elems(users[u].permissions)
            = Elems(get_default_permissions(users[u].staff_role))

\* C32: Loan.from_dict(loan.to_dict()) has the loan_id, user_id, item_id,
\* date_borrowed, date_due, date_returned, is_returned, renewal_count and
\* stored fine of the original, for a loan that is active, overdue or
\* returned, renewed or not, whenever the two calls are made.
C32_DictRoundTrip ==
    \A l \in LoanIds : \A t \in {now, 0, MaxDeskNow} :
        LET back == from_dict(to_dict(loans[l], l, now), t)
        IN  /\ back.loan_id = l
            /\ back.loan = loans[l]
            /\ to_dict(back.loan, back.loan_id, now) = to_dict(loans[l], l, now)

\* a renewed loan returned late in the middle of a day, with its fine
C32_Witness ==
    \E l \in LoanIds :
        /\ loans[l].is_returned
        /\ loans[l].renewal_count > 0
        /\ loans[l].fine_amount > 0
        /\ loans[l].date_returned % TicksPerDay # 0
        /\ from_dict(to_dict(loans[l], l, now), now).loan = loans[l]

\* C33: in every state reached through the directory's operations the
\* active-loan index has exactly the registered user ids as keys, and the
\* list of each user holds, each once, exactly the ids of the loans of the
\* registry with that user_id that are not returned.
C33_ActiveLoanIndex ==
    /\ DOMAIN active_loans = DOMAIN users
    /\ \A u \in DOMAIN active_loans :
          /\ Elems(active_loans[u])
                = {l \in LoanIds : loans[l].user_id = u /\ IsActive(l)}
          /\ \A j, k \in 1..Len(active_loans[u]) :
                j # k => active_loans[u][j] # active_loans[u][k]

\* two users registered: one holds a loan, the other has returned the loan it
\* made
C33_Witness ==
    \E u \in DOMAIN users, v \in DOMAIN users :
        /\ u # v
        /\ Len(active_loans[u]) = 1
        /\ active_loans[v] = <<>>
        /\ \E l \in LoanIds : loans[l].user_id = v /\ loans[l].is_returned

\* C34: in every state reached through the directory's operations the
\* borrowed-items list of each registered user has no item id twice and
\* holds exactly the item ids of the user's non-returned loans, and no item
\* id is in the lists of two different users.
C34_BorrowedItems ==
    /\ \A u \in DOMAIN users :
          /\ Elems(users[u].borrowed_items)
                = {loans[l].item_id : l \in ActiveLoansOfUser(u)}
          /\ \A j, k \in 1..Len(users[u].borrowed_items) :
                j # k => users[u].borrowed_items[j] # users[u].borrowed_items[k]
    /\ \A u, v \in DOMAIN users :
          u # v => Elems(users[u].borrowed_items)
                      \cap Elems(users[v].borrowed_items) = {}

\* the member has returned the item the staff user now holds
C34_Witness ==
    \E u \in Members, v \in StaffUsers, j \in DOMAIN items :
        /\ users[u].borrowed_items = <<>>
        /\ users[v].borrowed_items = <<j>>
        /\ \E l \in LoanIds : /\ loans[l].user_id = u
                              /\ loans[l].item_id = j
                              /\ loans[l].is_returned

\* the loan period, in days, of the item registered under an id (in Spec an
\* id is always registered with the same type)
LoanPeriodOfId(item_id) ==
    get_loan_period(NewItem(item_id, CHOOSE ty \in ItemTypesOf(item_id) : TRUE))

\* C35: for every loan made by check_out_item and changed only through the
\* directory, date_due = date_borrowed + the item's loan period + 21 days
\* times renewal_count in every state; so no operation of the directory
\* moves a date_due earlier, and date_due never exceeds date_borrowed + the
\* loan period + 42 days.
C35_DueDateFormula ==
    /\ \A l \in LoanIds :
          /\ loans[l].date_due
                = loans[l].date_borrowed
                    + Days(LoanPeriodOfId(loans[l].item_id))
                    + Days(21) * loans[l].renewal_count
          /\ loans[l].date_due
                <= loans[l].date_borrowed
                     + Days(LoanPeriodOfId(loans[l].item_id)) + Days(42)
    /\ \A u \in UserIds, i \in ItemIds :
          \A r \in {check_out_item(St, u, i), check_in_item(St, u, i),
                    renew_loan(St, u, i)} :
              \A l \in LoanIds : r.S.loans[l].date_due >= loans[l].date_due

\* a magazine renewed twice, some time after it was borrowed: due 49 days
\* after the check-out
C35_Witness ==
    \E l \in LoanIds :
        /\ loans[l].renewal_count = 2
        /\ LoanPeriodOfId(loans[l].item_id) = MagazineLoanPeriod
        /\ loans[l].date_due = loans[l].date_borrowed + Days(49)
        /\ now > loans[l].date_borrowed

\* what one step of the directory and of pay_fine does to the balance of a
\* member: a successful check-in of a loan of the member adds the fine the
\* call returns, a successful pay_fine subtracts the amount paid, and any
\* other step (a renewal, a check-out, a failed call, the clock) leaves it
FinesStep(u) ==
    LET delta == users'[u].fines_owed - users[u].fines_owed
        returned_now == {l \in LoanIds : /\ loans[l].user_id = u
                                         /\ ~loans[l].is_returned
                                         /\ loans'[l].is_returned}
    IN  IF returned_now # {}
        THEN \E i \in DOMAIN items :
                LET c == check_in_item(St, u, i) IN
                /\ c.ok
                /\ returned_now = {FindActiveLoan(St, u, i)}
                /\ delta = c.fine
                /\ loans'[FindActiveLoan(St, u, i)].fine_amount = c.fine
        ELSE \/ delta = 0
             \/ /\ delta < 0
                /\ pay_fine(users[u], 0 - delta).ok
                /\ (0 - delta) \in PayFineAmounts
                /\ loans' = loans /\ items' = items /\ now' = now

\* C36: for every Member object, across the directory's operations and the
\* pay_fine calls, fines_owed is the sum of the fines returned by the
\* member's successful check_in_item calls minus the sum of the amounts of
\* the member's successful pay_fine calls: each step changes it by exactly
\* that call's fine or payment, and renewals, check-outs, failed calls and
\* the passage of time do not change it.
C36_FinesLedger ==
    [][\A u \in Members : u \in DOMAIN users' => FinesStep(u)]_vars

\* the member has been charged for a late return and has paid part of it:
\* the balance is positive and below the fine of the returned loan
C36_Witness ==
    \E u \in Members : \E l \in Elems(users[u].loan_history) :
        /\ loans[l].is_returned
        /\ users[u].fines_owed > 0
        /\ users[u].fines_owed < loans[l].fine_amount
        /\ Len(loans) > 1

\* the messages of the defensive failure branches
DefensiveCheckOutMessages == {"Item is not available", "Failed to check out item"}

DefensiveCheckInMessages == {"Item not found", "Failed to check in item"}

\* C37: in the states reached through the directory's operations the
\* defensive branches are never taken: check_out_item never answers "Item is
\* not available" or "Failed to check out item", check_in_item never answers
\* "Item not found" or "Failed to check in item", and so a failed check-in
\* leaves every loan as it was.
C37_DefensiveBranchesDead ==
    \A u \in CallerUserIds, i \in CallerItemIds :
        LET out == check_out_item(St, u, i)
            back == check_in_item(St, u, i)
        IN  /\ out.msg \notin DefensiveCheckOutMessages
            /\ back.msg \notin DefensiveCheckInMessages
            /\ ~back.ok => back.S = St
            /\ ~out.ok => out.S = St

\* an item on loan is asked for by a staff user and by a member who are both
\* within their limits: the refusal comes from can_borrow_item; the holder's
\* check-in succeeds
C37_Witness ==
    \E u \in Members, s \in StaffUsers, i \in DOMAIN items :
        /\ ~items[i].is_available
        /\ Len(users[u].borrowed_items) < get_borrowing_limit(users[u])
        /\ Len(users[s].borrowed_items) < get_borrowing_limit(users[s])
        /\ users[u].fines_owed <= FineThreshold
        /\ now <= users[u].membership_expiry
        /\ \A v \in {u, s} :
              check_out_item(St, v, i).msg
                 = "User cannot borrow this item (check limits, fines, or membership status)"
        /\ \E v \in {u, s} : check_in_item(St, v, i).ok

\* the directories a new session can build from the database at the present
\* time: in this process or in a new one (with the default fine rate), for
\* every way the clock may have advanced between the loans borrowed in the
\* tick of an earlier loan
Reloads ==
    LET SameTickIds ==
            {db.loans[k].loan_id : k \in
                {k \in 1..Len(db.loans) : \E j \in 1..Len(db.loans) :
                    /\ db.loans[j].loan_id < db.loans[k].loan_id
                    /\ db.loans[j].date_borrowed = db.loans[k].date_borrowed}}
    IN  {load_data_from_database(db, now, rate, same) :
            rate \in {daily_fine_rate, DefaultDailyFineRate},
            same \in SUBSET SameTickIds}

\* the ids of the loans not returned of a user, in a directory state
OpenLoansOf(S, u) ==
    {l \in 1..Len(S.loans) : S.loans[l].user_id = u /\ ~S.loans[l].is_returned}

\* C38: after the directory is saved and rebuilt by load_data_from_database,
\* the borrowed-items list of every user holds the item ids of the user's
\* loans not returned, and a member with 5 loans not returned is refused
\* every further check-out.
C38_ReloadKeepsBorrowedItems ==
    \A R \in Reloads : \A u \in DOMAIN R.users :
        /\ Elems(R.users[u].borrowed_items)
              = {R.loans[l].item_id : l \in OpenLoansOf(R, u)}
        /\ (/\ R.users[u].role = "Member"
            /\ Cardinality(OpenLoansOf(R, u)) = 5)
              => \A i \in DOMAIN R.items : ~check_out_item(R, u, i).ok

====
